---- MODULE Spec2Model ----
(***************************************************************************)
(* Model of the shardstore data-placement core: the consistent-hash ring   *)
(* (internal/hash/consistent.go), the storage node engine                  *)
(* (internal/storage/node.go), the metadata store interface                *)
(* (internal/metadata) and the file manager that coordinates them          *)
(* (internal/manager/filemanager.go).                                      *)
(*                                                                         *)
(* Every handler is one atomic action.  Strings the Go code compares with  *)
(* "" are modelled by values that have a distinguished empty element:      *)
(* node identifiers are strings (NoNode is ""), file and version           *)
(* identifiers are positive integers (EmptyID, 0, stands for "").          *)
(***************************************************************************)
EXTENDS Integers, Sequences, FiniteSets, TLC

\* ------------------------------------------------------------------ bounds
\* uploads made, version identifiers in use, versions per record, payload
\* length, AddNode calls the ring holds at once, virtual nodes per node and
\* ring positions (150 and 2^32 in the program)
MaxFiles == 2
MaxVersionID == 2
MaxVersions == 2
MaxLen == 1
MaxAdds == 3
VirtualNodes == 2
HashSpace == 17
MaxPage == 2

\* ------------------------------------------------------- program constants
replicaFactor == 2

\* The version identifier uuid.New gives an upload: identifiers of versions
\* are only ever compared within one file, whose identifier is itself fresh.
newVersionID == 1

NodeIDs == {"n1", "n2", "n3"}
NoNode == ""
EmptyID == 0
FileIDs == 1..MaxFiles
\* The file identifier used where one file is enough.
SingleFile == {1}
VersionIDs == 1..MaxVersionID
Byte == {0, 255}

RECURSIVE SeqsUpTo(_)
SeqsUpTo(n) ==
  IF n = 0 THEN {<<>>}
  ELSE LET S == SeqsUpTo(n - 1)
       IN S \cup {Append(s, b) : s \in {t \in S : Len(t) = n - 1}, b \in Byte}

Payloads == SeqsUpTo(MaxLen)

\* ------------------------------------------------------------ hash ring
NodeIdx(n) == CASE n = "n1" -> 0 [] n = "n2" -> 1 [] n = "n3" -> 2 [] OTHER -> 3

\* hashKey applied to the virtual key "<nodeID>#<i>": a fixed scattering of
\* the virtual nodes over the position space, distinct keys landing on
\* distinct positions (as md5 does for the node names the server registers).
hashVirtual(nodeID, i) == ((i * 3 + NodeIdx(nodeID)) * 7 + 3) % HashSpace

\* hashKey applied to a file identifier.
hashFile(fileID) == (fileID * 5 + 1) % HashSpace

\* sort.Search(n, f): binary search for the smallest index in [0, n) at
\* which f holds, n if none; indices are 0-based as in Go.
RECURSIVE SearchLoop(_, _, _, _)
SearchLoop(ring, hash, i, j) ==
  IF i < j
  THEN LET h == (i + j) \div 2
       IN IF ~(ring[h + 1] >= hash)
          THEN SearchLoop(ring, hash, h + 1, j)
          ELSE SearchLoop(ring, hash, i, h)
  ELSE i

sortSearch(ring, hash) == SearchLoop(ring, hash, 0, Len(ring))

\* search giving the last index when no position is >= hash.
search_NoWrap(ring, hash) ==
  LET idx == sortSearch(ring, hash)
  IN IF idx >= Len(ring) THEN Len(ring) - 1 ELSE idx

\* search: the index of the first position >= hash, 0 when there is none.
search(ring, hash) ==
  LET idx == sortSearch(ring, hash)
  IN IF idx >= Len(ring) THEN 0 ELSE idx

RECURSIVE InsertSorted(_, _)
InsertSorted(s, x) ==
  IF s = <<>> THEN <<x>>
  ELSE IF x < Head(s) THEN <<x>> \o s
       ELSE <<Head(s)>> \o InsertSorted(Tail(s), x)

RECURSIVE sortSlice(_)
sortSlice(s) == IF s = <<>> THEN <<>> ELSE InsertSorted(sortSlice(Tail(s)), Head(s))

RemoveAt(s, idx) == SubSeq(s, 1, idx) \o SubSeq(s, idx + 2, Len(s))

\* The loop of AddNode from virtual index i on; st is [ring, owner].
RECURSIVE AddLoop(_, _, _)
AddLoop(st, nodeID, i) ==
  IF i >= VirtualNodes THEN st
  ELSE LET hash == hashVirtual(nodeID, i)
       IN AddLoop([ring |-> Append(st.ring, hash),
                   owner |-> [st.owner EXCEPT ![hash] = nodeID]], nodeID, i + 1)

AddNode(st, nodeID) ==
  LET a == AddLoop(st, nodeID, 0)
  IN [ring |-> sortSlice(a.ring), owner |-> a.owner]

\* The loop of RemoveNode from virtual index i on.
RECURSIVE RemoveLoop(_, _, _)
RemoveLoop(st, nodeID, i) ==
  IF i >= VirtualNodes THEN st
  ELSE LET hash == hashVirtual(nodeID, i)
           idx == sortSearch(st.ring, hash)
           ring2 == IF idx < Len(st.ring) /\ st.ring[idx + 1] = hash
                    THEN RemoveAt(st.ring, idx)
                    ELSE st.ring
       IN RemoveLoop([ring |-> ring2,
                      owner |-> [st.owner EXCEPT ![hash] = NoNode]], nodeID, i + 1)

RemoveNode(st, nodeID) == RemoveLoop(st, nodeID, 0)

\* The walk of GetNodes: i entries visited so far, acc the nodes collected.
RECURSIVE GetNodesLoop(_, _, _, _)
GetNodesLoop(st, idx, i, acc) ==
  IF Len(acc) < replicaFactor /\ i < Len(st.ring)
  THEN LET ringIdx == (idx + i) % Len(st.ring)
           nodeID == st.owner[st.ring[ringIdx + 1]]
       IN IF \E k \in 1..Len(acc) : acc[k] = nodeID
          THEN GetNodesLoop(st, idx, i + 1, acc)
          ELSE GetNodesLoop(st, idx, i + 1, Append(acc, nodeID))
  ELSE acc

GetNodes(st, hash) ==
  IF Len(st.ring) = 0 THEN <<>>
  ELSE GetNodesLoop(st, search(st.ring, hash), 0, <<>>)

\* GetPrimaryNode returning the last node of the list.
GetPrimaryNode_Last(st, hash) ==
  LET ns == GetNodes(st, hash)
  IN IF Len(ns) > 0 THEN ns[Len(ns)] ELSE NoNode

\* GetPrimaryNode: the first node of GetNodes, "" if there is none.
GetPrimaryNode(st, hash) ==
  LET ns == GetNodes(st, hash)
  IN IF Len(ns) > 0 THEN ns[1] ELSE NoNode

\* The hash values keys can have.
Keys == 0..(HashSpace - 1)

\* GetAllNodes: the distinct physical nodes the owner map holds.
GetAllNodes(st) == {st.owner[h] : h \in Keys} \ {NoNode}

\* --------------------------------------------------------- storage node
\* A node's storage location: one container per fileID, holding one
\* directory per versionID with a "data" and a "checksum" file.
NoBlob == [dir |-> FALSE, hasData |-> FALSE, data |-> <<>>,
           hasSum |-> FALSE, sum |-> <<>>]
NoFileDir == [exists |-> FALSE, vers |-> [v \in VersionIDs |-> NoBlob]]
EmptyDisk == [f \in FileIDs |-> NoFileDir]

HexDigit(d) ==
  CASE d = 0 -> "0" [] d = 1 -> "1" [] d = 2 -> "2" [] d = 3 -> "3"
    [] d = 4 -> "4" [] d = 5 -> "5" [] d = 6 -> "6" [] d = 7 -> "7"
    [] d = 8 -> "8" [] d = 9 -> "9" [] d = 10 -> "a" [] d = 11 -> "b"
    [] d = 12 -> "c" [] d = 13 -> "d" [] d = 14 -> "e" [] OTHER -> "f"

\* hex.EncodeToString: two hexadecimal digits per byte.
RECURSIVE hexEncode(_)
hexEncode(bytes) ==
  IF bytes = <<>> THEN <<>>
  ELSE <<HexDigit(Head(bytes) \div 16), HexDigit(Head(bytes) % 16)>>
       \o hexEncode(Tail(bytes))

\* sha256.Sum256 as a collision-free digest: the length of the input
\* followed by one mixed byte per input byte (x -> 7x + i + 3 is a
\* bijection of the bytes for every position i).
sha256(data) ==
  <<Len(data) % 256>> \o [i \in 1..Len(data) |-> (data[i] * 7 + i + 3) % 256]

\* A checksum that depends on the length of the data only.
calculateChecksum_LengthOnly(data) == hexEncode(<<Len(data) % 256>>)

calculateChecksum(data) == hexEncode(sha256(data))

StoreFaults == {"none", "mkdir", "data", "sum"}
DeleteFaults == {"none", "rm"}

\* StoreFile with the checksum taken of an empty buffer instead of data.
StoreFile_ChecksumOfNothing(fs, fileID, versionID, data, fault) ==
  LET old == fs[fileID].vers[versionID]
      made == [old EXCEPT !.dir = TRUE]
      written == [made EXCEPT !.hasData = TRUE, !.data = data]
      summed == [written EXCEPT !.hasSum = TRUE, !.sum = calculateChecksum(<<>>)]
      put(b) == [fs EXCEPT ![fileID] =
                   [exists |-> TRUE, vers |-> [@.vers EXCEPT ![versionID] = b]]]
  IN CASE fault = "mkdir" -> [fs |-> fs, err |-> "io error"]
       [] fault = "data" -> [fs |-> put(made), err |-> "io error"]
       [] fault = "sum" -> [fs |-> put(written), err |-> "io error"]
       [] OTHER -> [fs |-> put(summed), err |-> ""]

\* StoreFile returning success although the checksum write failed.
StoreFile_IgnoresChecksumError(fs, fileID, versionID, data, fault) ==
  LET old == fs[fileID].vers[versionID]
      made == [old EXCEPT !.dir = TRUE]
      written == [made EXCEPT !.hasData = TRUE, !.data = data]
      summed == [written EXCEPT !.hasSum = TRUE, !.sum = calculateChecksum(data)]
      put(b) == [fs EXCEPT ![fileID] =
                   [exists |-> TRUE, vers |-> [@.vers EXCEPT ![versionID] = b]]]
  IN CASE fault = "mkdir" -> [fs |-> fs, err |-> "io error"]
       [] fault = "data" -> [fs |-> put(made), err |-> "io error"]
       [] fault = "sum" -> [fs |-> put(written), err |-> ""]
       [] OTHER -> [fs |-> put(summed), err |-> ""]

\* StoreFile on the storage location fs; fault names the call that fails:
\* os.MkdirAll, the data os.WriteFile or the checksum os.WriteFile.
StoreFile(fs, fileID, versionID, data, fault) ==
  LET old == fs[fileID].vers[versionID]
      made == [old EXCEPT !.dir = TRUE]
      written == [made EXCEPT !.hasData = TRUE, !.data = data]
      summed == [written EXCEPT !.hasSum = TRUE, !.sum = calculateChecksum(data)]
      put(b) == [fs EXCEPT ![fileID] =
                   [exists |-> TRUE, vers |-> [@.vers EXCEPT ![versionID] = b]]]
  IN CASE fault = "mkdir" -> [fs |-> fs, err |-> "io error"]
       [] fault = "data" -> [fs |-> put(made), err |-> "io error"]
       [] fault = "sum" -> [fs |-> put(written), err |-> "io error"]
       [] OTHER -> [fs |-> put(summed), err |-> ""]

\* RetrieveFile: read data, read checksum, compare.
RetrieveFile(fs, fileID, versionID) ==
  LET b == fs[fileID].vers[versionID]
  IN IF ~b.hasData THEN [data |-> <<>>, err |-> "no such file"]
     ELSE IF ~b.hasSum THEN [data |-> <<>>, err |-> "no such file"]
     ELSE IF calculateChecksum(b.data) # b.sum
          THEN [data |-> <<>>, err |-> "checksum mismatch: data corrupted"]
          ELSE [data |-> b.data, err |-> ""]

\* Node.DeleteFile: remove the version directory, then the container if it
\* has no entries left; os.ReadDir fails when the container does not exist.
NodeDeleteFile(fs, fileID, versionID, fault) ==
  IF fault = "rm" THEN [fs |-> fs, err |-> "io error"]
  ELSE LET fs1 == [fs EXCEPT ![fileID].vers[versionID] = NoBlob]
           entries == {v \in VersionIDs : fs1[fileID].vers[v].dir}
       IN IF ~fs1[fileID].exists THEN [fs |-> fs1, err |-> "no such file"]
          ELSE IF entries = {}
               THEN [fs |-> [fs1 EXCEPT ![fileID] = NoFileDir], err |-> ""]
               ELSE [fs |-> fs1, err |-> ""]

\* DeleteAllVersions removing every container of the storage location.
DeleteAllVersions_WipesNode(fs, fileID, fault) ==
  IF fault = "rm" THEN [fs |-> fs, err |-> "io error"]
  ELSE [fs |-> EmptyDisk, err |-> ""]

\* DeleteAllVersions: os.RemoveAll of the fileID's container.
DeleteAllVersions(fs, fileID, fault) ==
  IF fault = "rm" THEN [fs |-> fs, err |-> "io error"]
  ELSE [fs |-> [fs EXCEPT ![fileID] = NoFileDir], err |-> ""]

FileExists(fs, fileID, versionID) == fs[fileID].vers[versionID].hasData

\* ReplicateFile returning after the copy, the checksum file not written.
ReplicateFile_NoChecksum(fs, fileID, versionID, data, fault) ==
  LET old == fs[fileID].vers[versionID]
      copied == [old EXCEPT !.dir = TRUE, !.hasData = TRUE, !.data = data]
  IN IF fault = "mkdir" THEN [fs |-> fs, err |-> "io error"]
     ELSE [fs |-> [fs EXCEPT ![fileID] =
                     [exists |-> TRUE, vers |-> [@.vers EXCEPT ![versionID] = copied]]],
           err |-> IF fault = "none" THEN "" ELSE "io error"]

\* ReplicateFile: os.MkdirAll, os.Create of the data file (an existing one
\* is truncated), io.Copy of the stream into the file and the hasher, then
\* the checksum os.WriteFile; fault "data" is the copy failing before the
\* first byte.
ReplicateFile(fs, fileID, versionID, data, fault) ==
  LET old == fs[fileID].vers[versionID]
      made == [old EXCEPT !.dir = TRUE]
      created == [made EXCEPT !.hasData = TRUE, !.data = <<>>]
      copied == [made EXCEPT !.hasData = TRUE, !.data = data]
      summed == [copied EXCEPT !.hasSum = TRUE, !.sum = hexEncode(sha256(data))]
      put(b) == [fs EXCEPT ![fileID] =
                   [exists |-> TRUE, vers |-> [@.vers EXCEPT ![versionID] = b]]]
  IN CASE fault = "mkdir" -> [fs |-> fs, err |-> "io error"]
       [] fault = "data" -> [fs |-> put(created), err |-> "io error"]
       [] fault = "sum" -> [fs |-> put(copied), err |-> "io error"]
       [] OTHER -> [fs |-> put(summed), err |-> ""]

\* ------------------------------------------------------- metadata store
\* A FileMetadata document; Filename, ContentType and the timestamps are
\* carried through unread by the core and are left out.
FileMetadata(fileID, size, replicas, versions) ==
  [FileID |-> fileID, Size |-> size, Replicas |-> replicas, Versions |-> versions]

Version(versionID, size, nodeIDs) ==
  [VersionID |-> versionID, Size |-> size, Nodes |-> nodeIDs]

NoMetadata == FileMetadata(EmptyID, 0, <<>>, <<>>)

\* SaveMetadata replacing the whole collection by the saved document.
SaveMetadata_Overwrites(docs, rec, ok) ==
  IF ok THEN [docs |-> {rec}, err |-> ""]
  ELSE [docs |-> docs, err |-> "metadata save failed"]

\* SaveMetadata: upsert by file_id; ok is whether the backend accepts it.
\* The collection is a set of documents, at most one per file_id.
SaveMetadata(docs, rec, ok) ==
  IF ok
  THEN [docs |-> {d \in docs : d.FileID # rec.FileID} \cup {rec}, err |-> ""]
  ELSE [docs |-> docs, err |-> "metadata save failed"]

GetMetadata(docs, fileID) ==
  IF \E d \in docs : d.FileID = fileID
  THEN [rec |-> CHOOSE d \in docs : d.FileID = fileID, err |-> ""]
  ELSE [rec |-> NoMetadata, err |-> "no documents in result"]

\* ListMetadata: the documents of the requested page and the count of all
\* documents. The page holds the documents after the first (page-1)*pageSize
\* in creation order, at most pageSize of them; the model carries no
\* timestamps, so only how many the page holds is determined.
ListMetadata(docs, page, pageSize) ==
  LET total == Cardinality(docs)
      skip == (page - 1) * pageSize
      rest == IF total > skip THEN total - skip ELSE 0
  IN [count |-> IF rest < pageSize THEN rest ELSE pageSize, total |-> total]

\* DeleteMetadata reporting success with the document left in place.
DeleteMetadata_KeepsRecord(docs, fileID, ok) ==
  [docs |-> docs, err |-> IF ok THEN "" ELSE "metadata delete failed"]

\* DeleteMetadata: DeleteOne by file_id; ok is whether the backend accepts it.
DeleteMetadata(docs, fileID, ok) ==
  IF ok
  THEN [docs |-> {d \in docs : d.FileID # fileID}, err |-> ""]
  ELSE [docs |-> docs, err |-> "metadata delete failed"]

\* ------------------------------------------------------------- state
VARIABLES
  nodes,      \* FileManager.nodes: the identifiers in the registry
  hashRing,   \* ConsistentHash.hashRing: the sorted ring positions
  chNodes,    \* ConsistentHash.nodes: ring position -> node identifier
  disk,       \* the storage location of every node, registered or not
  files,      \* the documents of the metadata store, by file_id
  usedIDs,    \* the file identifiers uuid.New has handed out
  lastOp,     \* the most recent call with its arguments and results
  uploaded,   \* history: [fileID, data] of every file uploaded and not deleted
  untouched,  \* history: uploaded files with no delete, unregister or
              \* corruption since their upload
  calls       \* the calls in flight when calls interleave: where each
              \* UploadFile and each RegisterNode/UnregisterNode stands

vars == <<nodes, hashRing, chNodes, disk, files, usedIDs, lastOp, uploaded, untouched, calls>>

ringState == [ring |-> hashRing, owner |-> chNodes]

\* An UploadFile call that has not started, a membership call that has not
\* started, and no call in flight at all.
NoUpload == [pc |-> "idle", data |-> <<>>, nodeIDs |-> <<>>, k |-> 0,
             stored |-> <<>>, err |-> ""]
NoMember == [op |-> "none", pc |-> "idle"]

\* The goroutines that call a node or the ring directly, a sync.RWMutex
\* nobody holds (w the goroutine holding it exclusively, r those holding it
\* shared), and a node call that has not started.
Threads == {"t1", "t2"}
NoThread == ""
NoMutex == [w |-> NoThread, r |-> {}]
NoIO == [pc |-> "idle", op |-> "none", node |-> NoNode, fileID |-> EmptyID,
         versionID |-> EmptyID, data |-> <<>>, got |-> <<>>, err |-> ""]

\* A ring without positions and a ring call that has not started; before
\* is the ring as a mutation found it when it took the lock.
NoRing == [ring |-> <<>>, owner |-> [h \in Keys |-> NoNode]]
NoRingCall == [pc |-> "idle", op |-> "none", node |-> NoNode, key |-> 0, i |-> 0,
               before |-> NoRing, nodeIDs |-> <<>>]

\* A DownloadFile call and a DeleteFile call that have not started; after
\* is how a DeleteFile of the same file had returned when the download
\* started ("no" if none had).
NoDownload == [pc |-> "idle", versionID |-> EmptyID, nodeIDs |-> <<>>, k |-> 0,
               after |-> "no"]
NoDelete == [pc |-> "idle", replicas |-> <<>>, k |-> 0, err |-> ""]

NoCalls == [up |-> [f \in FileIDs |-> NoUpload], reg |-> [n \in NodeIDs |-> NoMember],
            io |-> [t \in Threads |-> NoIO], mu |-> [n \in NodeIDs |-> NoMutex],
            rc |-> [t \in Threads |-> NoRingCall], rmu |-> NoMutex,
            dl |-> [f \in FileIDs |-> NoDownload], del |-> [f \in FileIDs |-> NoDelete]]

Init ==
  /\ nodes = {}
  /\ hashRing = <<>>
  /\ chNodes = [h \in 0..(HashSpace - 1) |-> NoNode]
  /\ disk = [n \in NodeIDs |-> EmptyDisk]
  /\ files = {}
  /\ usedIDs = {}
  /\ lastOp = [op |-> "init"]
  /\ uploaded = {}
  /\ untouched = {}
  /\ calls = NoCalls

\* ------------------------------------------------------- file manager
\* RegisterNode; ok is whether storage.NewNode could create the location.
RegisterNode(nodeID, ok) ==
  /\ Len(hashRing) + VirtualNodes <= MaxAdds * VirtualNodes
  /\ IF ok
     THEN LET st == AddNode(ringState, nodeID)
          IN /\ nodes' = nodes \cup {nodeID}
             /\ hashRing' = st.ring
             /\ chNodes' = st.owner
             /\ lastOp' = [op |-> "register", node |-> nodeID, err |-> ""]
     ELSE /\ UNCHANGED <<nodes, hashRing, chNodes>>
          /\ lastOp' = [op |-> "register", node |-> nodeID, err |-> "io error"]
  /\ UNCHANGED <<disk, files, usedIDs, uploaded, untouched, calls>>

UnregisterNode(nodeID) ==
  LET st == RemoveNode(ringState, nodeID)
  IN /\ nodes' = nodes \ {nodeID}
     /\ hashRing' = st.ring
     /\ chNodes' = st.owner
     /\ lastOp' = [op |-> "unregister", node |-> nodeID, err |-> ""]
     /\ untouched' = {}
     /\ UNCHANGED <<disk, files, usedIDs, uploaded, calls>>

\* GetNodeCount counting the ring's positions per virtual node.
GetNodeCount_FromRing == Len(hashRing) \div VirtualNodes

\* GetNodeCount: the size of the registry.
GetNodeCount == Cardinality(nodes)

\* The store loop leaving at the first Store that fails.
RECURSIVE StoreLoop_StopsAtFailure(_, _, _, _, _, _, _)
StoreLoop_StopsAtFailure(nodeIDs, k, acc, fileID, versionID, data, faults) ==
  IF k > Len(nodeIDs) THEN acc
  ELSE LET nodeID == nodeIDs[k]
       IN IF nodeID \notin nodes
          THEN StoreLoop_StopsAtFailure(nodeIDs, k + 1, acc, fileID, versionID,
                                        data, faults)
          ELSE LET r == StoreFile(acc.disk[nodeID], fileID, versionID, data, faults[k])
                   d == [acc.disk EXCEPT ![nodeID] = r.fs]
               IN IF r.err # ""
                  THEN [acc EXCEPT !.disk = d, !.tried = Append(@, nodeID)]
                  ELSE StoreLoop_StopsAtFailure(nodeIDs, k + 1,
                         [disk |-> d, tried |-> Append(acc.tried, nodeID),
                          stored |-> Append(acc.stored, nodeID)],
                         fileID, versionID, data, faults)

\* The store loop counting a node as stored whether or not Store failed.
RECURSIVE StoreLoop_KeepsFailed(_, _, _, _, _, _, _)
StoreLoop_KeepsFailed(nodeIDs, k, acc, fileID, versionID, data, faults) ==
  IF k > Len(nodeIDs) THEN acc
  ELSE LET nodeID == nodeIDs[k]
       IN IF nodeID \notin nodes
          THEN StoreLoop_KeepsFailed(nodeIDs, k + 1, acc, fileID, versionID,
                                     data, faults)
          ELSE LET r == StoreFile(acc.disk[nodeID], fileID, versionID, data, faults[k])
                   d == [acc.disk EXCEPT ![nodeID] = r.fs]
               IN StoreLoop_KeepsFailed(nodeIDs, k + 1,
                    [disk |-> d, tried |-> Append(acc.tried, nodeID),
                     stored |-> Append(acc.stored, nodeID)],
                    fileID, versionID, data, faults)

\* The store loop of UploadFile from candidate k on; acc is [disk, stored,
\* tried]; faults[k] is the fault met by Store on the k-th candidate.
RECURSIVE StoreLoop(_, _, _, _, _, _, _)
StoreLoop(nodeIDs, k, acc, fileID, versionID, data, faults) ==
  IF k > Len(nodeIDs) THEN acc
  ELSE LET nodeID == nodeIDs[k]
       IN IF nodeID \notin nodes
          THEN StoreLoop(nodeIDs, k + 1, acc, fileID, versionID, data, faults)
          ELSE LET r == StoreFile(acc.disk[nodeID], fileID, versionID, data, faults[k])
                   d == [acc.disk EXCEPT ![nodeID] = r.fs]
               IN IF r.err # ""
                  THEN StoreLoop(nodeIDs, k + 1,
                                 [acc EXCEPT !.disk = d, !.tried = Append(@, nodeID)],
                                 fileID, versionID, data, faults)
                  ELSE StoreLoop(nodeIDs, k + 1,
                                 [disk |-> d, tried |-> Append(acc.tried, nodeID),
                                  stored |-> Append(acc.stored, nodeID)],
                                 fileID, versionID, data, faults)

\* cleanupFailedUpload deleting from the first node only.
cleanupFailedUpload_FirstOnly(fileID, versionID, nodeIDs, k, acc, delFaults) ==
  IF k > Len(nodeIDs) \/ k > 1 THEN acc
  ELSE LET nodeID == nodeIDs[k]
           r == NodeDeleteFile(acc.disk[nodeID], fileID, versionID, delFaults[k])
       IN [disk |-> [acc.disk EXCEPT ![nodeID] = r.fs],
           cleaned |-> Append(acc.cleaned, nodeID),
           failed |-> IF r.err # "" THEN acc.failed \cup {nodeID} ELSE acc.failed]

\* cleanupFailedUpload from the k-th node on; acc is [disk, cleaned, failed].
RECURSIVE cleanupFailedUpload(_, _, _, _, _, _)
cleanupFailedUpload(fileID, versionID, nodeIDs, k, acc, delFaults) ==
  IF k > Len(nodeIDs) THEN acc
  ELSE LET nodeID == nodeIDs[k]
       IN IF nodeID \notin nodes
          THEN cleanupFailedUpload(fileID, versionID, nodeIDs, k + 1, acc, delFaults)
          ELSE LET r == NodeDeleteFile(acc.disk[nodeID], fileID, versionID, delFaults[k])
               IN cleanupFailedUpload(fileID, versionID, nodeIDs, k + 1,
                    [disk |-> [acc.disk EXCEPT ![nodeID] = r.fs],
                     cleaned |-> Append(acc.cleaned, nodeID),
                     failed |-> IF r.err # "" THEN acc.failed \cup {nodeID}
                                ELSE acc.failed],
                    delFaults)

\* What UploadFile does and returns: the new disks and documents, and the
\* call's record (candidates, stores tried, stores succeeded, result).
UploadOutcome(fileID, versionID, data, faults, saveOk, delFaults) ==
  LET nodeIDs == GetNodes(ringState, hashFile(fileID))
      call == [op |-> "upload", fileID |-> fileID, versionID |-> versionID,
               data |-> data, cand |-> nodeIDs, tried |-> <<>>, stored |-> <<>>,
               saveCalled |-> FALSE, cleaned |-> <<>>, cleanFailed |-> {},
               rec |-> NoMetadata, err |-> ""]
  IN IF Len(nodeIDs) = 0
     THEN [disk |-> disk, files |-> files,
           out |-> [call EXCEPT !.err = "no storage nodes available"]]
     ELSE
       LET s == StoreLoop(nodeIDs, 1, [disk |-> disk, tried |-> <<>>, stored |-> <<>>],
                          fileID, versionID, data, faults)
           call2 == [call EXCEPT !.tried = s.tried, !.stored = s.stored]
       IN IF Len(s.stored) = 0
          THEN [disk |-> s.disk, files |-> files,
                out |-> [call2 EXCEPT !.err = "failed to store file on any node"]]
          ELSE
            LET fileMetadata ==
                  FileMetadata(fileID, Len(data), s.stored,
                               <<Version(versionID, Len(data), s.stored)>>)
                sv == SaveMetadata(files, fileMetadata, saveOk)
            IN IF sv.err # ""
               THEN LET c == cleanupFailedUpload(fileID, versionID, s.stored, 1,
                               [disk |-> s.disk, cleaned |-> <<>>, failed |-> {}],
                               delFaults)
                    IN [disk |-> c.disk, files |-> sv.docs,
                        out |-> [call2 EXCEPT !.saveCalled = TRUE,
                                              !.cleaned = c.cleaned,
                                              !.cleanFailed = c.failed,
                                              !.err = sv.err]]
               ELSE [disk |-> s.disk, files |-> sv.docs,
                     out |-> [call2 EXCEPT !.saveCalled = TRUE,
                                           !.rec = fileMetadata]]

UploadFile(fileID, versionID, data, faults, saveOk, delFaults) ==
  LET u == UploadOutcome(fileID, versionID, data, faults, saveOk, delFaults)
  IN /\ fileID \notin usedIDs
     /\ usedIDs' = usedIDs \cup {fileID}
     /\ disk' = u.disk
     /\ files' = u.files
     /\ lastOp' = u.out
     /\ IF u.out.err = ""
        THEN /\ uploaded' = uploaded \cup {[fileID |-> fileID, data |-> data]}
             /\ untouched' = untouched \cup {fileID}
        ELSE UNCHANGED <<uploaded, untouched>>
     /\ UNCHANGED <<nodes, hashRing, chNodes, calls>>

\* The node list taken from a fresh ring lookup instead of the record.
replicaNodes_FromRing(fileID, version) == GetNodes(ringState, hashFile(fileID))

\* The node list DownloadFile walks: the one recorded in the target version.
replicaNodes(fileID, version) == version.Nodes

\* The replica walk going on after a Retrieve has succeeded.
RECURSIVE RetrieveLoop_ReadsAll(_, _, _, _)
RetrieveLoop_ReadsAll(fileID, version, k, acc) ==
  IF k > Len(replicaNodes(fileID, version)) THEN acc
  ELSE LET nodeID == replicaNodes(fileID, version)[k]
       IN IF nodeID \notin nodes
          THEN RetrieveLoop_ReadsAll(fileID, version, k + 1, acc)
          ELSE LET r == RetrieveFile(disk[nodeID], fileID, version.VersionID)
               IN RetrieveLoop_ReadsAll(fileID, version, k + 1,
                    [data |-> IF r.err = "" THEN r.data ELSE acc.data,
                     lastErr |-> IF acc.done THEN "" ELSE r.err,
                     tried |-> Append(acc.tried, nodeID),
                     done |-> acc.done \/ r.err = ""])

\* The replica walk keeping the first error it met instead of the last.
RECURSIVE RetrieveLoop_FirstError(_, _, _, _)
RetrieveLoop_FirstError(fileID, version, k, acc) ==
  IF k > Len(replicaNodes(fileID, version)) THEN acc
  ELSE LET nodeID == replicaNodes(fileID, version)[k]
       IN IF nodeID \notin nodes
          THEN RetrieveLoop_FirstError(fileID, version, k + 1, acc)
          ELSE LET r == RetrieveFile(disk[nodeID], fileID, version.VersionID)
                   acc2 == [data |-> r.data,
                            lastErr |-> IF acc.lastErr # "" THEN acc.lastErr ELSE r.err,
                            tried |-> Append(acc.tried, nodeID), done |-> r.err = ""]
               IN IF r.err = "" THEN acc2
                  ELSE RetrieveLoop_FirstError(fileID, version, k + 1, acc2)

\* The replica walk of DownloadFile from the k-th recorded node on; acc is
\* [data, lastErr, tried, done].
RECURSIVE RetrieveLoop(_, _, _, _)
RetrieveLoop(fileID, version, k, acc) ==
  IF k > Len(replicaNodes(fileID, version)) THEN acc
  ELSE LET nodeID == replicaNodes(fileID, version)[k]
       IN IF nodeID \notin nodes
          THEN RetrieveLoop(fileID, version, k + 1, acc)
          ELSE LET r == RetrieveFile(disk[nodeID], fileID, version.VersionID)
                   acc2 == [data |-> r.data, lastErr |-> r.err,
                            tried |-> Append(acc.tried, nodeID), done |-> r.err = ""]
               IN IF r.err = "" THEN acc2
                  ELSE RetrieveLoop(fileID, version, k + 1, acc2)

\* The version selection taking the oldest version when none is named.
targetVersion_Oldest(fileMeta, versionID) ==
  IF versionID = EmptyID
  THEN IF Len(fileMeta.Versions) = 0 THEN 0 ELSE 1
  ELSE IF \E i \in 1..Len(fileMeta.Versions) : fileMeta.Versions[i].VersionID = versionID
       THEN CHOOSE i \in 1..Len(fileMeta.Versions) :
              /\ fileMeta.Versions[i].VersionID = versionID
              /\ \A j \in 1..(i - 1) : fileMeta.Versions[j].VersionID # versionID
       ELSE 0

\* The index of the version DownloadFile reads, 0 if there is none.
targetVersion(fileMeta, versionID) ==
  IF versionID = EmptyID
  THEN Len(fileMeta.Versions)
  ELSE IF \E i \in 1..Len(fileMeta.Versions) : fileMeta.Versions[i].VersionID = versionID
       THEN CHOOSE i \in 1..Len(fileMeta.Versions) :
              /\ fileMeta.Versions[i].VersionID = versionID
              /\ \A j \in 1..(i - 1) : fileMeta.Versions[j].VersionID # versionID
       ELSE 0

\* What DownloadFile returns, with the index of the version it read (target)
\* and the nodes it called Retrieve on (tried).
DownloadOutcome(fileID, versionID) ==
  LET g == GetMetadata(files, fileID)
      call == [op |-> "download", fileID |-> fileID, versionID |-> versionID,
               data |-> <<>>, rec |-> NoMetadata, target |-> 0,
               tried |-> <<>>, wrapped |-> "", err |-> ""]
  IN IF g.err # "" THEN [call EXCEPT !.err = "file not found", !.wrapped = g.err]
     ELSE
       LET t == targetVersion(g.rec, versionID)
       IN IF t = 0
          THEN [call EXCEPT !.err = IF versionID = EmptyID THEN "no versions available"
                                    ELSE "version not found"]
          ELSE
            LET version == g.rec.Versions[t]
                w == RetrieveLoop(fileID, version, 1,
                       [data |-> <<>>, lastErr |-> "", tried |-> <<>>, done |-> FALSE])
            IN IF w.done
               THEN [call EXCEPT !.data = w.data, !.rec = g.rec,
                                 !.target = t, !.tried = w.tried]
               ELSE [call EXCEPT !.target = t, !.tried = w.tried,
                                 !.wrapped = w.lastErr,
                                 !.err = "failed to retrieve file from any replica"]

DownloadFile(fileID, versionID) ==
  /\ lastOp' = DownloadOutcome(fileID, versionID)
  /\ UNCHANGED <<nodes, hashRing, chNodes, disk, files, usedIDs, uploaded, untouched, calls>>

\* GetFileInfo: the record as the metadata store returns it.
GetFileInfo(fileID) == GetMetadata(files, fileID)

\* The delete loop leaving at the first DeleteAllVersions that fails.
RECURSIVE DeleteLoop_StopsAtFailure(_, _, _, _, _)
DeleteLoop_StopsAtFailure(fileID, replicas, k, acc, delFaults) ==
  IF k > Len(replicas) THEN acc
  ELSE LET nodeID == replicas[k]
       IN IF nodeID \notin nodes
          THEN DeleteLoop_StopsAtFailure(fileID, replicas, k + 1, acc, delFaults)
          ELSE LET r == DeleteAllVersions(acc.disk[nodeID], fileID, delFaults[k])
                   acc2 == [disk |-> [acc.disk EXCEPT ![nodeID] = r.fs],
                            issued |-> Append(acc.issued, nodeID)]
               IN IF r.err # "" THEN acc2
                  ELSE DeleteLoop_StopsAtFailure(fileID, replicas, k + 1, acc2, delFaults)

\* The delete loop of DeleteFile from the k-th replica on; acc is [disk, issued].
RECURSIVE DeleteLoop(_, _, _, _, _)
DeleteLoop(fileID, replicas, k, acc, delFaults) ==
  IF k > Len(replicas) THEN acc
  ELSE LET nodeID == replicas[k]
       IN IF nodeID \notin nodes
          THEN DeleteLoop(fileID, replicas, k + 1, acc, delFaults)
          ELSE LET r == DeleteAllVersions(acc.disk[nodeID], fileID, delFaults[k])
               IN DeleteLoop(fileID, replicas, k + 1,
                    [disk |-> [acc.disk EXCEPT ![nodeID] = r.fs],
                     issued |-> Append(acc.issued, nodeID)],
                    delFaults)

\* DeleteFile going on to the metadata deletion when the record is absent.
DeleteOutcome_IgnoresMissing(fileID, delFaults, metaOk) ==
  LET g == GetMetadata(files, fileID)
      call == [op |-> "delete", fileID |-> fileID, issued |-> <<>>, err |-> ""]
      l == DeleteLoop(fileID, g.rec.Replicas, 1,
                      [disk |-> disk, issued |-> <<>>], delFaults)
      dm == DeleteMetadata(files, fileID, metaOk)
  IN [disk |-> l.disk, files |-> dm.docs,
      out |-> [call EXCEPT !.issued = l.issued, !.err = dm.err]]

DeleteOutcome(fileID, delFaults, metaOk) ==
  LET g == GetMetadata(files, fileID)
      call == [op |-> "delete", fileID |-> fileID, issued |-> <<>>, err |-> ""]
  IN IF g.err # ""
     THEN [disk |-> disk, files |-> files, out |-> [call EXCEPT !.err = "file not found"]]
     ELSE LET l == DeleteLoop(fileID, g.rec.Replicas, 1,
                              [disk |-> disk, issued |-> <<>>], delFaults)
              dm == DeleteMetadata(files, fileID, metaOk)
          IN [disk |-> l.disk, files |-> dm.docs,
              out |-> [call EXCEPT !.issued = l.issued, !.err = dm.err]]

DeleteFile(fileID, delFaults, metaOk) ==
  LET d == DeleteOutcome(fileID, delFaults, metaOk)
  IN /\ disk' = d.disk
     /\ files' = d.files
     /\ lastOp' = d.out
     /\ uploaded' = IF d.out.err = "" THEN {u \in uploaded : u.fileID # fileID}
                    ELSE uploaded
     /\ untouched' = untouched \ {fileID}
     /\ UNCHANGED <<nodes, hashRing, chNodes, usedIDs, calls>>

\* External alteration of a stored data file, its checksum file left alone.
CorruptData(nodeID, fileID, versionID, newData) ==
  LET b == disk[nodeID][fileID].vers[versionID]
  IN /\ b.hasData
     /\ newData # b.data
     /\ disk' = [disk EXCEPT ![nodeID][fileID].vers[versionID].data = newData]
     /\ lastOp' = [op |-> "corrupt"]
     /\ untouched' = untouched \ {fileID}
     /\ UNCHANGED <<nodes, hashRing, chNodes, files, usedIDs, uploaded, calls>>

\* MetadataStore.AddVersion: $push onto the versions of the document whose
\* file_id matches; an update that matches no document is not an error.
AddVersionDocs(docs, fileID, version) ==
  [docs |-> {IF d.FileID = fileID
             THEN [d EXCEPT !.Versions = Append(@, version)]
             ELSE d : d \in docs},
   err |-> ""]

AddVersion(fileID, version) ==
  LET a == AddVersionDocs(files, fileID, version)
  IN /\ \A d \in files : d.FileID = fileID => Len(d.Versions) < MaxVersions
     /\ files' = a.docs
     /\ lastOp' = [op |-> "addversion", fileID |-> fileID, err |-> a.err]
     /\ untouched' = untouched \ {fileID}
     /\ UNCHANGED <<nodes, hashRing, chNodes, disk, usedIDs, uploaded, calls>>

\* ListFiles: one page of records and the total.
ListFiles(page, pageSize) ==
  LET l == ListMetadata(files, page, pageSize)
  IN /\ \E S \in SUBSET files :
          /\ Cardinality(S) = l.count
          /\ lastOp' = [op |-> "list", page |-> page, pageSize |-> pageSize,
                        files |-> S, total |-> l.total]
     /\ UNCHANGED <<nodes, hashRing, chNodes, disk, files, usedIDs, uploaded,
                    untouched, calls>>

\* The operations of one storage node called directly; lastOp records the
\* call and what it returned.
NodeCall(op, nodeID, fileID, versionID, data, err) ==
  [op |-> op, node |-> nodeID, fileID |-> fileID, versionID |-> versionID,
   data |-> data, err |-> err]

NodeStore(nodeID, fileID, versionID, data, fault) ==
  LET r == StoreFile(disk[nodeID], fileID, versionID, data, fault)
  IN /\ disk' = [disk EXCEPT ![nodeID] = r.fs]
     /\ lastOp' = NodeCall("store", nodeID, fileID, versionID, data, r.err)
     /\ UNCHANGED <<nodes, hashRing, chNodes, files, usedIDs, uploaded,
                    untouched, calls>>

NodeReplicate(nodeID, fileID, versionID, data, fault) ==
  LET r == ReplicateFile(disk[nodeID], fileID, versionID, data, fault)
  IN /\ disk' = [disk EXCEPT ![nodeID] = r.fs]
     /\ lastOp' = NodeCall("replicate", nodeID, fileID, versionID, data, r.err)
     /\ UNCHANGED <<nodes, hashRing, chNodes, files, usedIDs, uploaded,
                    untouched, calls>>

NodeRetrieve(nodeID, fileID, versionID) ==
  LET r == RetrieveFile(disk[nodeID], fileID, versionID)
  IN /\ lastOp' = NodeCall("retrieve", nodeID, fileID, versionID, r.data, r.err)
     /\ UNCHANGED <<nodes, hashRing, chNodes, disk, files, usedIDs, uploaded,
                    untouched, calls>>

NodeDelete(nodeID, fileID, versionID, fault) ==
  LET r == NodeDeleteFile(disk[nodeID], fileID, versionID, fault)
  IN /\ disk' = [disk EXCEPT ![nodeID] = r.fs]
     /\ lastOp' = NodeCall("nodedelete", nodeID, fileID, versionID, <<>>, r.err)
     /\ UNCHANGED <<nodes, hashRing, chNodes, files, usedIDs, uploaded,
                    untouched, calls>>

NodeDeleteAll(nodeID, fileID, fault) ==
  LET r == DeleteAllVersions(disk[nodeID], fileID, fault)
  IN /\ disk' = [disk EXCEPT ![nodeID] = r.fs]
     /\ lastOp' = NodeCall("deleteall", nodeID, fileID, EmptyID, <<>>, r.err)
     /\ UNCHANGED <<nodes, hashRing, chNodes, files, usedIDs, uploaded,
                    untouched, calls>>

\* A caller of the ring asking for the nodes of a key with hash value hash.
Lookup(hash) ==
  /\ lastOp' = [op |-> "getnodes", key |-> hash,
                result |-> GetNodes(ringState, hash),
                primary |-> GetPrimaryNode(ringState, hash)]
  /\ UNCHANGED <<nodes, hashRing, chNodes, disk, files, usedIDs, uploaded,
                 untouched, calls>>

\* ----------------------------------------------- interleaved calls
\* UploadFile as the steps other calls can interleave with: the ring lookup
\* under the ring's lock, each registry lookup, each Store under the node's
\* lock, and the metadata save. calls.up[f] is the call's position and locals.
Running == lastOp.op # "fatal"

\* The position after the k-th candidate has been dealt with.
AfterCandidate(c) ==
  IF c.k < Len(c.nodeIDs) THEN [c EXCEPT !.pc = "lookup", !.k = c.k + 1]
  ELSE IF Len(c.stored) = 0
       THEN [c EXCEPT !.pc = "done", !.err = "failed to store file on any node"]
       ELSE [c EXCEPT !.pc = "save"]

UploadBegin(fileID, data) ==
  /\ Running
  /\ fileID \notin usedIDs
  /\ calls.up[fileID].pc = "idle"
  /\ usedIDs' = usedIDs \cup {fileID}
  /\ calls' = [calls EXCEPT !.up[fileID] = [NoUpload EXCEPT !.pc = "ring", !.data = data]]
  /\ lastOp' = [op |-> "step"]
  /\ UNCHANGED <<nodes, hashRing, chNodes, disk, files, uploaded, untouched>>

UploadGetNodes(fileID) ==
  LET c == calls.up[fileID]
      nodeIDs == GetNodes(ringState, hashFile(fileID))
  IN /\ Running
     /\ c.pc = "ring"
     /\ calls' = [calls EXCEPT !.up[fileID] =
                    IF Len(nodeIDs) = 0
                    THEN [c EXCEPT !.pc = "done", !.err = "no storage nodes available"]
                    ELSE [c EXCEPT !.pc = "lookup", !.nodeIDs = nodeIDs, !.k = 1]]
     /\ lastOp' = [op |-> "step"]
     /\ UNCHANGED <<nodes, hashRing, chNodes, disk, files, usedIDs, uploaded, untouched>>

UploadLookup(fileID) ==
  LET c == calls.up[fileID]
  IN /\ Running
     /\ c.pc = "lookup"
     /\ calls' = [calls EXCEPT !.up[fileID] =
                    IF c.nodeIDs[c.k] \in nodes THEN [c EXCEPT !.pc = "store"]
                    ELSE AfterCandidate(c)]
     /\ lastOp' = [op |-> "step"]
     /\ UNCHANGED <<nodes, hashRing, chNodes, disk, files, usedIDs, uploaded, untouched>>

UploadStore(fileID, fault) ==
  LET c == calls.up[fileID]
      nodeID == c.nodeIDs[c.k]
      r == StoreFile(disk[nodeID], fileID, newVersionID, c.data, fault)
  IN /\ Running
     /\ c.pc = "store"
     /\ disk' = [disk EXCEPT ![nodeID] = r.fs]
     /\ calls' = [calls EXCEPT !.up[fileID] =
                    AfterCandidate(IF r.err = ""
                                   THEN [c EXCEPT !.stored = Append(@, nodeID)]
                                   ELSE c)]
     /\ lastOp' = [op |-> "step"]
     /\ UNCHANGED <<nodes, hashRing, chNodes, files, usedIDs, uploaded, untouched>>

UploadSave(fileID, saveOk, delFaults) ==
  LET c == calls.up[fileID]
      fileMetadata == FileMetadata(fileID, Len(c.data), c.stored,
                                   <<Version(newVersionID, Len(c.data), c.stored)>>)
      sv == SaveMetadata(files, fileMetadata, saveOk)
      cl == cleanupFailedUpload(fileID, newVersionID, c.stored, 1,
                                [disk |-> disk, cleaned |-> <<>>, failed |-> {}],
                                delFaults)
  IN /\ Running
     /\ c.pc = "save"
     /\ files' = sv.docs
     /\ calls' = [calls EXCEPT !.up[fileID] = [c EXCEPT !.pc = "done", !.err = sv.err]]
     /\ lastOp' = [op |-> "step"]
     /\ IF sv.err = ""
        THEN /\ uploaded' = uploaded \cup {[fileID |-> fileID, data |-> c.data]}
             /\ untouched' = untouched \cup {fileID}
             /\ UNCHANGED disk
        ELSE /\ disk' = cl.disk
             /\ UNCHANGED <<uploaded, untouched>>
     /\ UNCHANGED <<nodes, hashRing, chNodes, usedIDs>>

\* RegisterNode and UnregisterNode as their steps: the call begins
\* (storage.NewNode for a registration), writes the registry map, then
\* updates the ring under the ring's lock and returns. The FileManager has
\* no lock of its own, so nothing orders the registry write against the
\* registry accesses of other calls.
MemberBegin(nodeID, op, ok) ==
  /\ Running
  /\ calls.reg[nodeID].pc = "idle"
  /\ calls' = [calls EXCEPT !.reg[nodeID] =
                 IF op = "register" /\ ~ok THEN NoMember
                 ELSE [op |-> op, pc |-> "write"]]
  /\ lastOp' = [op |-> "step"]
  /\ UNCHANGED <<nodes, hashRing, chNodes, disk, files, usedIDs, uploaded, untouched>>

MemberWrite(nodeID) ==
  LET c == calls.reg[nodeID]
  IN /\ Running
     /\ c.pc = "write"
     /\ nodes' = IF c.op = "register" THEN nodes \cup {nodeID} ELSE nodes \ {nodeID}
     /\ untouched' = IF c.op = "register" THEN untouched ELSE {}
     /\ calls' = [calls EXCEPT !.reg[nodeID].pc = "ring"]
     /\ lastOp' = [op |-> "step"]
     /\ UNCHANGED <<hashRing, chNodes, disk, files, usedIDs, uploaded>>

MemberRing(nodeID) ==
  LET c == calls.reg[nodeID]
      st == IF c.op = "register" THEN AddNode(ringState, nodeID)
            ELSE RemoveNode(ringState, nodeID)
  IN /\ Running
     /\ c.pc = "ring"
     /\ c.op = "register" => Len(hashRing) + VirtualNodes <= MaxAdds * VirtualNodes
     /\ hashRing' = st.ring
     /\ chNodes' = st.owner
     /\ calls' = [calls EXCEPT !.reg[nodeID] = NoMember]
     /\ lastOp' = [op |-> "step"]
     /\ UNCHANGED <<nodes, disk, files, usedIDs, uploaded, untouched>>

\* The calls standing at an access to the registry map.
RegistryWriter(nodeID) == calls.reg[nodeID].pc = "write"
RegistryReader(fileID) == calls.up[fileID].pc = "lookup"
RegistryRace ==
  \E n \in NodeIDs :
    /\ RegistryWriter(n)
    /\ \/ \E f \in FileIDs : RegistryReader(f)
       \/ \E m \in NodeIDs \ {n} : RegistryWriter(m)

\* An unsynchronized map write concurrent with another access is a data
\* race: besides either order of the two accesses, the runtime may stop
\* the process with a fatal error.
MapFault ==
  /\ Running
  /\ RegistryRace
  /\ lastOp' = [op |-> "fatal", err |-> "concurrent map access"]
  /\ UNCHANGED <<nodes, hashRing, chNodes, disk, files, usedIDs, uploaded,
                 untouched, calls>>

\* ----------------------------------- downloads and deletes in steps
\* DownloadFile and DeleteFile as the steps other calls can interleave
\* with: the metadata read, each replica's Retrieve or DeleteAllVersions
\* under the node's lock, and the metadata delete.
DownloadBegin(fileID) ==
  LET d == calls.del[fileID]
  IN /\ calls.dl[fileID].pc = "idle"
     /\ calls' = [calls EXCEPT !.dl[fileID] =
                    [NoDownload EXCEPT !.pc = "meta",
                                       !.after = IF d.pc # "done" THEN "no"
                                                 ELSE IF d.err = "" THEN "ok"
                                                 ELSE "failed"]]
     /\ lastOp' = [op |-> "step"]
     /\ UNCHANGED <<nodes, hashRing, chNodes, disk, files, usedIDs, uploaded, untouched>>

\* What a returning DownloadFile leaves: the call over, its result in lastOp.
DownloadReturn(fileID, data, err) ==
  /\ calls' = [calls EXCEPT !.dl[fileID] = NoDownload]
  /\ lastOp' = [op |-> "download", fileID |-> fileID, data |-> data, err |-> err,
                after |-> calls.dl[fileID].after]

\* GetMetadata and the choice of the latest version.
DownloadGetMetadata(fileID) ==
  LET c == calls.dl[fileID]
      g == GetMetadata(files, fileID)
      t == targetVersion(g.rec, EmptyID)
  IN /\ c.pc = "meta"
     /\ IF g.err # "" THEN DownloadReturn(fileID, <<>>, "file not found")
        ELSE IF t = 0 THEN DownloadReturn(fileID, <<>>, "no versions available")
        ELSE IF Len(g.rec.Versions[t].Nodes) = 0
             THEN DownloadReturn(fileID, <<>>, "failed to retrieve file from any replica")
             ELSE /\ calls' = [calls EXCEPT !.dl[fileID] =
                                 [c EXCEPT !.pc = "node", !.k = 1,
                                           !.versionID = g.rec.Versions[t].VersionID,
                                           !.nodeIDs = g.rec.Versions[t].Nodes]]
                  /\ lastOp' = [op |-> "step"]
     /\ UNCHANGED <<nodes, hashRing, chNodes, disk, files, usedIDs, uploaded, untouched>>

\* One iteration of the replica walk.
DownloadRetrieve(fileID) ==
  LET c == calls.dl[fileID]
      nodeID == c.nodeIDs[c.k]
      r == RetrieveFile(disk[nodeID], fileID, c.versionID)
  IN /\ c.pc = "node"
     /\ IF nodeID \in nodes /\ r.err = ""
        THEN DownloadReturn(fileID, r.data, "")
        ELSE IF c.k >= Len(c.nodeIDs)
             THEN DownloadReturn(fileID, <<>>, "failed to retrieve file from any replica")
             ELSE /\ calls' = [calls EXCEPT !.dl[fileID].k = c.k + 1]
                  /\ lastOp' = [op |-> "step"]
     /\ UNCHANGED <<nodes, hashRing, chNodes, disk, files, usedIDs, uploaded, untouched>>

DeleteBegin(fileID) ==
  /\ calls.del[fileID].pc = "idle"
  /\ calls' = [calls EXCEPT !.del[fileID] = [NoDelete EXCEPT !.pc = "meta"]]
  /\ lastOp' = [op |-> "step"]
  /\ UNCHANGED <<nodes, hashRing, chNodes, disk, files, usedIDs, uploaded, untouched>>

DeleteGetMetadata(fileID) ==
  LET c == calls.del[fileID]
      g == GetMetadata(files, fileID)
  IN /\ c.pc = "meta"
     /\ calls' = [calls EXCEPT !.del[fileID] =
                    IF g.err # "" THEN [c EXCEPT !.pc = "done", !.err = "file not found"]
                    ELSE IF Len(g.rec.Replicas) = 0 THEN [c EXCEPT !.pc = "drop"]
                    ELSE [c EXCEPT !.pc = "node", !.k = 1, !.replicas = g.rec.Replicas]]
     /\ lastOp' = [op |-> "step"]
     /\ UNCHANGED <<nodes, hashRing, chNodes, disk, files, usedIDs, uploaded, untouched>>

\* One iteration of the delete loop; a failing DeleteAllVersions is logged.
DeleteOnNode(fileID, fault) ==
  LET c == calls.del[fileID]
      nodeID == c.replicas[c.k]
      r == DeleteAllVersions(disk[nodeID], fileID, fault)
  IN /\ c.pc = "node"
     /\ nodeID \notin nodes => fault = "none"
     /\ disk' = IF nodeID \in nodes THEN [disk EXCEPT ![nodeID] = r.fs] ELSE disk
     /\ calls' = [calls EXCEPT !.del[fileID] =
                    IF c.k >= Len(c.replicas) THEN [c EXCEPT !.pc = "drop"]
                    ELSE [c EXCEPT !.k = c.k + 1]]
     /\ lastOp' = [op |-> "step"]
     /\ untouched' = untouched \ {fileID}
     /\ UNCHANGED <<nodes, hashRing, chNodes, files, usedIDs, uploaded>>

\* DeleteMetadata and the return.
DeleteDropMetadata(fileID, metaOk) ==
  LET c == calls.del[fileID]
      dm == DeleteMetadata(files, fileID, metaOk)
  IN /\ c.pc = "drop"
     /\ files' = dm.docs
     /\ calls' = [calls EXCEPT !.del[fileID] = [c EXCEPT !.pc = "done", !.err = dm.err]]
     /\ lastOp' = [op |-> "step"]
     /\ uploaded' = IF dm.err = "" THEN {u \in uploaded : u.fileID # fileID}
                    ELSE uploaded
     /\ untouched' = untouched \ {fileID}
     /\ UNCHANGED <<nodes, hashRing, chNodes, disk, usedIDs>>

\* ------------------------------------------- calls under a node's lock
\* Each operation of a node as the file-system calls it makes between
\* taking n.mu and releasing it; calls.io[t] is goroutine t's call and
\* calls.mu[n] the lock of node n.
Writers == {"store", "replicate", "nodedelete", "deleteall"}
Readers == {"retrieve", "exists"}

\* A lock that is granted whoever holds it.
CanLock_Always(m, exclusive) == TRUE

\* Lock waits until nobody holds the mutex, RLock until no writer does.
CanLock(m, exclusive) ==
  IF exclusive THEN m.w = NoThread /\ m.r = {} ELSE m.w = NoThread

\* Lock returning without the mutex held.
Locked_NotHeld(m, t, exclusive) == m

\* The mutex once Lock (exclusive) or RLock has returned to goroutine t.
Locked(m, t, exclusive) ==
  IF exclusive THEN [m EXCEPT !.w = t] ELSE [m EXCEPT !.r = @ \cup {t}]

Unlocked(m, t) == [w |-> IF m.w = t THEN NoThread ELSE m.w, r |-> m.r \ {t}]

FirstStep(op) ==
  CASE op \in {"store", "replicate"} -> "mkdir"
    [] op = "retrieve" -> "readdata"
    [] op = "nodedelete" -> "rmver"
    [] op = "deleteall" -> "rmall"
    [] OTHER -> "stat"

IoBegin(t, op, nodeID, fileID, versionID, data) ==
  /\ calls.io[t].pc = "idle"
  /\ calls' = [calls EXCEPT !.io[t] =
                 [NoIO EXCEPT !.pc = "lock", !.op = op, !.node = nodeID,
                              !.fileID = fileID, !.versionID = versionID,
                              !.data = data]]
  /\ lastOp' = [op |-> "step"]
  /\ UNCHANGED <<nodes, hashRing, chNodes, disk, files, usedIDs, uploaded, untouched>>

\* n.mu.Lock() or n.mu.RLock().
IoLock(t) ==
  LET c == calls.io[t]
  IN /\ c.pc = "lock"
     /\ CanLock(calls.mu[c.node], c.op \in Writers)
     /\ calls' = [calls EXCEPT !.mu[c.node] = Locked(@, t, c.op \in Writers),
                               !.io[t].pc = FirstStep(c.op)]
     /\ lastOp' = [op |-> "step"]
     /\ UNCHANGED <<nodes, hashRing, chNodes, disk, files, usedIDs, uploaded,
                    untouched>>

\* One file-system call of StoreFile or ReplicateFile: os.MkdirAll, the
\* write of the data file, the write of the checksum file.
IoWrite(t, fault) ==
  LET c == calls.io[t]
      fs == disk[c.node]
      upTo(flt) == IF c.op = "store"
                   THEN StoreFile(fs, c.fileID, c.versionID, c.data, flt)
                   ELSE ReplicateFile(fs, c.fileID, c.versionID, c.data, flt)
      next == CASE c.pc = "mkdir" -> "data" [] c.pc = "data" -> "sum" [] OTHER -> "none"
      r == IF fault THEN upTo(c.pc) ELSE upTo(next)
  IN /\ c.op \in {"store", "replicate"}
     /\ c.pc \in {"mkdir", "data", "sum"}
     /\ disk' = [disk EXCEPT ![c.node] = r.fs]
     /\ calls' = [calls EXCEPT !.io[t] =
                    IF fault \/ next = "none"
                    THEN [c EXCEPT !.pc = "unlock", !.err = r.err]
                    ELSE [c EXCEPT !.pc = next]]
     /\ lastOp' = [op |-> "step"]
     /\ UNCHANGED <<nodes, hashRing, chNodes, files, usedIDs, uploaded, untouched>>

\* One file-system call of RetrieveFile: os.ReadFile of the data file, then
\* os.ReadFile of the checksum file and the comparison.
IoRead(t) ==
  LET c == calls.io[t]
      b == disk[c.node][c.fileID].vers[c.versionID]
  IN /\ c.op = "retrieve"
     /\ c.pc \in {"readdata", "readsum"}
     /\ calls' = [calls EXCEPT !.io[t] =
                    IF c.pc = "readdata"
                    THEN IF ~b.hasData
                         THEN [c EXCEPT !.pc = "unlock", !.err = "no such file"]
                         ELSE [c EXCEPT !.pc = "readsum", !.got = b.data]
                    ELSE IF ~b.hasSum
                         THEN [c EXCEPT !.pc = "unlock", !.got = <<>>,
                                        !.err = "no such file"]
                         ELSE IF calculateChecksum(c.got) # b.sum
                              THEN [c EXCEPT !.pc = "unlock", !.got = <<>>,
                                             !.err = "checksum mismatch: data corrupted"]
                              ELSE [c EXCEPT !.pc = "unlock"]]
     /\ lastOp' = [op |-> "step"]
     /\ UNCHANGED <<nodes, hashRing, chNodes, disk, files, usedIDs, uploaded,
                    untouched>>

\* The os.Stat of FileExists.
IoStat(t) ==
  LET c == calls.io[t]
  IN /\ c.op = "exists"
     /\ c.pc = "stat"
     /\ calls' = [calls EXCEPT !.io[t] =
                    [c EXCEPT !.pc = "unlock",
                              !.err = IF FileExists(disk[c.node], c.fileID, c.versionID)
                                      THEN "" ELSE "no such file"]]
     /\ lastOp' = [op |-> "step"]
     /\ UNCHANGED <<nodes, hashRing, chNodes, disk, files, usedIDs, uploaded,
                    untouched>>

\* One file-system call of DeleteFile (os.RemoveAll of the version
\* directory, then os.ReadDir and os.Remove of the container) or the
\* os.RemoveAll of DeleteAllVersions.
IoRemove(t, fault) ==
  LET c == calls.io[t]
      fs == disk[c.node]
      r == CASE c.pc = "rmall" ->
                  DeleteAllVersions(fs, c.fileID, IF fault THEN "rm" ELSE "none")
             [] c.pc = "rmver" ->
                  IF fault THEN [fs |-> fs, err |-> "io error"]
                  ELSE [fs |-> [fs EXCEPT ![c.fileID].vers[c.versionID] = NoBlob],
                        err |-> ""]
             [] OTHER -> NodeDeleteFile(fs, c.fileID, c.versionID, "none")
  IN /\ c.op \in {"nodedelete", "deleteall"}
     /\ c.pc \in {"rmver", "readdir", "rmall"}
     /\ c.pc = "readdir" => ~fault
     /\ disk' = [disk EXCEPT ![c.node] = r.fs]
     /\ calls' = [calls EXCEPT !.io[t] =
                    IF c.pc = "rmver" /\ ~fault
                    THEN [c EXCEPT !.pc = "readdir"]
                    ELSE [c EXCEPT !.pc = "unlock", !.err = r.err]]
     /\ lastOp' = [op |-> "step"]
     /\ UNCHANGED <<nodes, hashRing, chNodes, files, usedIDs, uploaded, untouched>>

\* The deferred n.mu.Unlock() or n.mu.RUnlock() and the return.
IoUnlock(t) ==
  LET c == calls.io[t]
  IN /\ c.pc = "unlock"
     /\ calls' = [calls EXCEPT !.mu[c.node] = Unlocked(@, t), !.io[t] = NoIO]
     /\ lastOp' = NodeCall(c.op, c.node, c.fileID, c.versionID,
                           IF c.op = "retrieve" THEN c.got ELSE c.data, c.err)
     /\ UNCHANGED <<nodes, hashRing, chNodes, disk, files, usedIDs, uploaded,
                    untouched>>

\* ------------------------------------------- calls under the ring's lock
\* AddNode and RemoveNode one loop iteration at a time and the reads in one
\* step, between taking ch.mu and releasing it; calls.rc[t] is goroutine
\* t's call and calls.rmu the ring's lock.
Mutations == {"add", "remove"}
Lookups == {"getnodes", "primary", "all"}

\* What the call returns when it runs alone on the ring st.
Applied(op, st, nodeID) ==
  IF op = "add" THEN AddNode(st, nodeID) ELSE RemoveNode(st, nodeID)

RingBegin(t, op, nodeID, key) ==
  /\ calls.rc[t].pc = "idle"
  /\ op = "add" =>
       Len(hashRing) + VirtualNodes *
         (1 + Cardinality({u \in Threads : calls.rc[u].op = "add"}))
       <= MaxAdds * VirtualNodes
  /\ calls' = [calls EXCEPT !.rc[t] =
                 [NoRingCall EXCEPT !.pc = "lock", !.op = op, !.node = nodeID,
                                    !.key = key]]
  /\ lastOp' = [op |-> "step"]
  /\ UNCHANGED <<nodes, hashRing, chNodes, disk, files, usedIDs, uploaded, untouched>>

\* ch.mu.Lock() or ch.mu.RLock().
RingLock(t) ==
  LET c == calls.rc[t]
  IN /\ c.pc = "lock"
     /\ CanLock(calls.rmu, c.op \in Mutations)
     /\ calls' = [calls EXCEPT !.rmu = Locked(@, t, c.op \in Mutations),
                               !.rc[t] = [c EXCEPT !.pc = IF c.op \in Mutations
                                                          THEN "loop" ELSE "read",
                                                   !.before = ringState]]
     /\ lastOp' = [op |-> "step"]
     /\ UNCHANGED <<nodes, hashRing, chNodes, disk, files, usedIDs, uploaded,
                    untouched>>

\* One iteration of AddNode's loop: append the position, set its owner.
RingAddStep(t) ==
  LET c == calls.rc[t]
      hash == hashVirtual(c.node, c.i)
  IN /\ c.op = "add" /\ c.pc = "loop"
     /\ hashRing' = Append(hashRing, hash)
     /\ chNodes' = [chNodes EXCEPT ![hash] = c.node]
     /\ calls' = [calls EXCEPT !.rc[t] =
                    [c EXCEPT !.i = c.i + 1,
                              !.pc = IF c.i + 1 >= VirtualNodes THEN "sort" ELSE "loop"]]
     /\ lastOp' = [op |-> "step"]
     /\ UNCHANGED <<nodes, disk, files, usedIDs, uploaded, untouched>>

\* The sort.Slice that ends AddNode.
RingSort(t) ==
  LET c == calls.rc[t]
  IN /\ c.op = "add" /\ c.pc = "sort"
     /\ hashRing' = sortSlice(hashRing)
     /\ calls' = [calls EXCEPT !.rc[t].pc = "unlock"]
     /\ lastOp' = [op |-> "step"]
     /\ UNCHANGED <<nodes, chNodes, disk, files, usedIDs, uploaded, untouched>>

\* One iteration of RemoveNode's loop: search the position, cut it out of
\* the list if found, delete its owner.
RingRemoveStep(t) ==
  LET c == calls.rc[t]
      hash == hashVirtual(c.node, c.i)
      idx == sortSearch(hashRing, hash)
  IN /\ c.op = "remove" /\ c.pc = "loop"
     /\ hashRing' = IF idx < Len(hashRing) /\ hashRing[idx + 1] = hash
                    THEN RemoveAt(hashRing, idx)
                    ELSE hashRing
     /\ chNodes' = [chNodes EXCEPT ![hash] = NoNode]
     /\ calls' = [calls EXCEPT !.rc[t] =
                    [c EXCEPT !.i = c.i + 1,
                              !.pc = IF c.i + 1 >= VirtualNodes THEN "unlock" ELSE "loop"]]
     /\ lastOp' = [op |-> "step"]
     /\ UNCHANGED <<nodes, disk, files, usedIDs, uploaded, untouched>>

\* The body of GetNodes, GetPrimaryNode or GetAllNodes.
RingRead(t) ==
  LET c == calls.rc[t]
  IN /\ c.op \in Lookups /\ c.pc = "read"
     /\ calls' = [calls EXCEPT !.rc[t] =
                    [c EXCEPT !.pc = "unlock",
                              !.nodeIDs =
                                 CASE c.op = "getnodes" -> GetNodes(ringState, c.key)
                                   [] c.op = "primary" ->
                                        <<GetPrimaryNode(ringState, c.key)>>
                                   [] OTHER -> GetAllNodes(ringState)]]
     /\ lastOp' = [op |-> "step"]
     /\ UNCHANGED <<nodes, hashRing, chNodes, disk, files, usedIDs, uploaded,
                    untouched>>

\* The deferred ch.mu.Unlock() or ch.mu.RUnlock() and the return.
RingUnlock(t) ==
  LET c == calls.rc[t]
  IN /\ c.pc = "unlock"
     /\ calls' = [calls EXCEPT !.rmu = Unlocked(@, t), !.rc[t] = NoRingCall]
     /\ lastOp' = [op |-> c.op, node |-> c.node, key |-> c.key, result |-> c.nodeIDs]
     /\ UNCHANGED <<nodes, hashRing, chNodes, disk, files, usedIDs, uploaded,
                    untouched>>

Faults(S) == [1..replicaFactor -> S]
NoFaults(S) == [k \in 1..replicaFactor |-> "none"]

\* ----------------------------------------------------- specifications
\* Every operation with every input.
Next ==
  \/ \E n \in NodeIDs, ok \in BOOLEAN : RegisterNode(n, ok)
  \/ \E n \in NodeIDs : UnregisterNode(n)
  \/ \E f \in SingleFile, data \in Payloads, faults \in Faults(StoreFaults),
        saveOk \in BOOLEAN, delFaults \in Faults(DeleteFaults) :
       UploadFile(f, newVersionID, data, faults, saveOk, delFaults)
  \/ \E f \in SingleFile, v \in VersionIDs \cup {EmptyID} : DownloadFile(f, v)
  \/ \E f \in SingleFile, delFaults \in Faults(DeleteFaults), metaOk \in BOOLEAN :
       DeleteFile(f, delFaults, metaOk)
  \/ \E n \in NodeIDs, f \in SingleFile, v \in VersionIDs, data \in Payloads :
       CorruptData(n, f, v, data)
  \/ \E f \in SingleFile, v \in VersionIDs, n \in NodeIDs :
       AddVersion(f, Version(v, 0, <<n>>))

Spec == Init /\ [][Next]_vars

\* The write path: membership changes, an identifier registered twice
\* included, and uploads under every fault.
NextUpload ==
  \/ \E n \in NodeIDs, ok \in BOOLEAN : RegisterNode(n, ok)
  \/ \E n \in NodeIDs : UnregisterNode(n)
  \/ \E f \in SingleFile, data \in Payloads, faults \in Faults(StoreFaults),
        saveOk \in BOOLEAN, delFaults \in Faults(DeleteFaults) :
       UploadFile(f, newVersionID, data, faults, saveOk, delFaults)

SpecUpload == Init /\ [][NextUpload]_vars

\* The read path: uploads under every fault, then deletes, corruption and
\* membership changes (no identifier registered while it is registered),
\* and downloads.
NextRead ==
  \/ \E n \in NodeIDs \ nodes, ok \in BOOLEAN : RegisterNode(n, ok)
  \/ \E n \in NodeIDs : UnregisterNode(n)
  \/ \E f \in SingleFile, data \in Payloads, faults \in Faults(StoreFaults),
        saveOk \in BOOLEAN, delFaults \in Faults(DeleteFaults) :
       UploadFile(f, newVersionID, data, faults, saveOk, delFaults)
  \/ \E f \in SingleFile, v \in VersionIDs \cup {EmptyID} : DownloadFile(f, v)
  \/ \E f \in SingleFile, delFaults \in Faults(DeleteFaults), metaOk \in BOOLEAN :
       DeleteFile(f, delFaults, metaOk)
  \/ \E n \in NodeIDs, f \in SingleFile, v \in VersionIDs, data \in Payloads :
       CorruptData(n, f, v, data)

SpecRead == Init /\ [][NextRead]_vars

\* Records with several versions: fault-free uploads, versions appended
\* through the metadata store, membership changes and downloads.
NextVersions ==
  \/ \E n \in NodeIDs \ nodes : RegisterNode(n, TRUE)
  \/ \E n \in NodeIDs : UnregisterNode(n)
  \/ \E f \in SingleFile, data \in Payloads :
       UploadFile(f, newVersionID, data, NoFaults(StoreFaults), TRUE,
                  NoFaults(DeleteFaults))
  \/ \E f \in SingleFile, v \in VersionIDs, n \in NodeIDs :
       AddVersion(f, Version(v, 0, <<n>>))
  \/ \E f \in SingleFile, v \in VersionIDs \cup {EmptyID} : DownloadFile(f, v)

SpecVersions == Init /\ [][NextVersions]_vars

\* Several files side by side: nodes joining, fault-free uploads of
\* distinct files, deletes under every node fault, and downloads.
NextFiles ==
  \/ \E n \in NodeIDs \ nodes : RegisterNode(n, TRUE)
  \/ \E f \in FileIDs, data \in Payloads :
       UploadFile(f, newVersionID, data, NoFaults(StoreFaults), TRUE,
                  NoFaults(DeleteFaults))
  \/ \E f \in FileIDs, delFaults \in Faults(DeleteFaults) :
       DeleteFile(f, delFaults, TRUE)
  \/ \E f \in FileIDs : DownloadFile(f, EmptyID)

SpecFiles == Init /\ [][NextFiles]_vars

\* One storage node alone and one file on it: every operation of the node
\* under every fault, and alteration of a stored data file from outside.
OneNode == {"n1"}

NextNode ==
  \/ \E n \in OneNode, f \in SingleFile, v \in VersionIDs, data \in Payloads,
        fault \in StoreFaults : NodeStore(n, f, v, data, fault)
  \/ \E n \in OneNode, f \in SingleFile, v \in VersionIDs, data \in Payloads,
        fault \in StoreFaults : NodeReplicate(n, f, v, data, fault)
  \/ \E n \in OneNode, f \in SingleFile, v \in VersionIDs : NodeRetrieve(n, f, v)
  \/ \E n \in OneNode, f \in SingleFile, v \in VersionIDs, fault \in DeleteFaults :
       NodeDelete(n, f, v, fault)
  \/ \E n \in OneNode, f \in SingleFile, fault \in DeleteFaults :
       NodeDeleteAll(n, f, fault)
  \/ \E n \in OneNode, f \in SingleFile, v \in VersionIDs, data \in Payloads :
       CorruptData(n, f, v, data)

SpecNode == Init /\ [][NextNode]_vars

\* Two goroutines calling two nodes directly, one key, every operation
\* taken one file-system call at a time under the node's lock.
TwoNodes == {"n1", "n2"}

NextLock ==
  \/ \E t \in Threads, op \in {"store", "replicate"}, n \in TwoNodes,
        f \in SingleFile, data \in Payloads \ {<<>>} :
       IoBegin(t, op, n, f, newVersionID, data)
  \/ \E t \in Threads, op \in (Writers \cup Readers) \ {"store", "replicate"},
        n \in TwoNodes, f \in SingleFile :
       IoBegin(t, op, n, f, newVersionID, <<>>)
  \/ \E t \in Threads : IoLock(t)
  \/ \E t \in Threads, fault \in BOOLEAN : IoWrite(t, fault)
  \/ \E t \in Threads : IoRead(t)
  \/ \E t \in Threads : IoStat(t)
  \/ \E t \in Threads, fault \in BOOLEAN : IoRemove(t, fault)
  \/ \E t \in Threads : IoUnlock(t)

SpecLock == Init /\ [][NextLock]_vars

\* Two goroutines calling the ring directly: nodes added (an added one
\* again included) and removed, and the keys of the files looked up.
FileKeys == {hashFile(f) : f \in FileIDs}

NextRingLock ==
  \/ \E t \in Threads, op \in Mutations, n \in NodeIDs : RingBegin(t, op, n, 0)
  \/ \E t \in Threads, op \in {"getnodes", "primary"}, h \in FileKeys :
       RingBegin(t, op, NoNode, h)
  \/ \E t \in Threads : RingBegin(t, "all", NoNode, 0)
  \/ \E t \in Threads : RingLock(t)
  \/ \E t \in Threads : RingAddStep(t)
  \/ \E t \in Threads : RingSort(t)
  \/ \E t \in Threads : RingRemoveStep(t)
  \/ \E t \in Threads : RingRead(t)
  \/ \E t \in Threads : RingUnlock(t)

SpecRingLock == Init /\ [][NextRingLock]_vars

\* The ring alone: nodes added (an added one again included) and removed
\* (an absent one included), and lookups of every key.
NextRing ==
  \/ \E n \in NodeIDs, ok \in BOOLEAN : RegisterNode(n, ok)
  \/ \E n \in NodeIDs : UnregisterNode(n)
  \/ \E h \in Keys : Lookup(h)

SpecRing == Init /\ [][NextRing]_vars

\* The server after main has registered its storage nodes.
RECURSIVE RingOf(_)
RingOf(nodeIDs) ==
  IF nodeIDs = <<>>
  THEN [ring |-> <<>>, owner |-> [h \in 0..(HashSpace - 1) |-> NoNode]]
  ELSE AddNode(RingOf(SubSeq(nodeIDs, 1, Len(nodeIDs) - 1)), nodeIDs[Len(nodeIDs)])

InitServer ==
  /\ nodes = NodeIDs
  /\ hashRing = RingOf(<<"n1", "n2", "n3">>).ring
  /\ chNodes = RingOf(<<"n1", "n2", "n3">>).owner
  /\ disk = [n \in NodeIDs |-> EmptyDisk]
  /\ files = {}
  /\ usedIDs = {}
  /\ lastOp = [op |-> "init"]
  /\ uploaded = {}
  /\ untouched = {}
  /\ calls = NoCalls

\* Requests served concurrently by the running server: UploadFile calls
\* interleaving step by step, with listings and downloads in between.
NextServe ==
  \/ \E f \in FileIDs, data \in Payloads : UploadBegin(f, data)
  \/ \E f \in FileIDs : UploadGetNodes(f)
  \/ \E f \in FileIDs : UploadLookup(f)
  \/ \E f \in FileIDs : UploadStore(f, "none")
  \/ \E f \in FileIDs : UploadSave(f, TRUE, NoFaults(DeleteFaults))
  \/ \E f \in FileIDs : DownloadFile(f, EmptyID)
  \/ \E page \in 1..MaxPage, pageSize \in 1..MaxPage : ListFiles(page, pageSize)

SpecServe == InitServer /\ [][NextServe]_vars

\* Uploads whose stores and whose save can fail, interleaving step by step
\* with each other and with downloads on the running server.
NextPublish ==
  \/ \E f \in FileIDs, data \in Payloads : UploadBegin(f, data)
  \/ \E f \in FileIDs : UploadGetNodes(f)
  \/ \E f \in FileIDs : UploadLookup(f)
  \/ \E f \in FileIDs, fault \in StoreFaults : UploadStore(f, fault)
  \/ \E f \in FileIDs, saveOk \in BOOLEAN :
       UploadSave(f, saveOk, NoFaults(DeleteFaults))
  \/ \E f \in FileIDs : DownloadFile(f, EmptyID)

SpecPublish == InitServer /\ [][NextPublish]_vars

\* One file uploaded on the running server, then downloads and one delete
\* of it interleaving step by step, the delete under every fault. The
\* identifier is the one UploadFile generated, so the delete is of a file
\* whose upload has returned.
NextRemove ==
  \/ \E f \in SingleFile, data \in Payloads : UploadBegin(f, data)
  \/ \E f \in SingleFile : UploadGetNodes(f)
  \/ \E f \in SingleFile : UploadLookup(f)
  \/ \E f \in SingleFile : UploadStore(f, "none")
  \/ \E f \in SingleFile : UploadSave(f, TRUE, NoFaults(DeleteFaults))
  \/ \E f \in SingleFile : DownloadBegin(f)
  \/ \E f \in SingleFile : DownloadGetMetadata(f)
  \/ \E f \in SingleFile : DownloadRetrieve(f)
  \/ \E f \in SingleFile : GetMetadata(files, f).err = "" /\ DeleteBegin(f)
  \/ \E f \in SingleFile : DeleteGetMetadata(f)
  \/ \E f \in SingleFile, fault \in DeleteFaults : DeleteOnNode(f, fault)
  \/ \E f \in SingleFile, metaOk \in BOOLEAN : DeleteDropMetadata(f, metaOk)

SpecRemove == InitServer /\ [][NextRemove]_vars

\* Membership changes interleaving with each other and with an upload:
\* registrations of unregistered nodes, unregistrations of registered ones.
NextRace ==
  \/ \E n \in NodeIDs \ nodes, ok \in BOOLEAN : MemberBegin(n, "register", ok)
  \/ \E n \in nodes : MemberBegin(n, "unregister", TRUE)
  \/ \E n \in NodeIDs : MemberWrite(n)
  \/ \E n \in NodeIDs : MemberRing(n)
  \/ \E f \in SingleFile, data \in Payloads : UploadBegin(f, data)
  \/ \E f \in SingleFile : UploadGetNodes(f)
  \/ \E f \in SingleFile : UploadLookup(f)
  \/ \E f \in SingleFile : UploadStore(f, "none")
  \/ \E f \in SingleFile : UploadSave(f, TRUE, NoFaults(DeleteFaults))
  \/ MapFault

SpecRace == Init /\ [][NextRace]_vars

\* The same calls under a scheduler that lets every goroutine that can
\* take its next step take it eventually; starting a call and the runtime
\* stopping the process are under no such obligation.
SpecRaceFair ==
  /\ SpecRace
  /\ \A n \in NodeIDs : WF_vars(MemberWrite(n)) /\ WF_vars(MemberRing(n))
  /\ \A f \in SingleFile :
       /\ WF_vars(UploadGetNodes(f))
       /\ WF_vars(UploadLookup(f))
       /\ WF_vars(UploadStore(f, "none"))
       /\ WF_vars(UploadSave(f, TRUE, NoFaults(DeleteFaults)))

\* ------------------------------------------------------------ claims
\* The blob a node's storage location holds for (fileID, versionID).
Blob(nodeID, fileID, versionID) == disk[nodeID][fileID].vers[versionID]

\* The node holds data with its matching checksum for (fileID, versionID).
Intact(nodeID, fileID, versionID, data) ==
  LET b == Blob(nodeID, fileID, versionID)
  IN b.hasData /\ b.data = data /\ b.hasSum /\ b.sum = calculateChecksum(data)

HasRecord(fileID) == \E d \in files : d.FileID = fileID
RecordOf(fileID) == CHOOSE d \in files : d.FileID = fileID
UploadedData(fileID) == (CHOOSE u \in uploaded : u.fileID = fileID).data
RegisteredOf(nodeIDs) == SelectSeq(nodeIDs, LAMBDA n : n \in nodes)
Range(seq) == {seq[i] : i \in 1..Len(seq)}
Distinct(seq) == \A i, j \in 1..Len(seq) : i # j => seq[i] # seq[j]

\* s is t with some elements left out, the order kept.
RECURSIVE IsSubSeq(_, _)
IsSubSeq(s, t) ==
  IF s = <<>> THEN TRUE
  ELSE IF t = <<>> THEN FALSE
  ELSE IF Head(s) = Head(t) THEN IsSubSeq(Tail(s), Tail(t))
       ELSE IsSubSeq(s, Tail(t))

UploadDone == lastOp.op = "upload"
UploadOk == lastOp.op = "upload" /\ lastOp.err = ""
UploadFailed == lastOp.op = "upload" /\ lastOp.err # ""
DownloadDone == lastOp.op = "download"

\* C1: a successful upload returns a record whose Size is the payload's
\* length and whose Replicas is not empty, and a download of the latest
\* version of a file with no delete, unregister or corruption since its
\* upload succeeds and returns the uploaded bytes.
C1_UploadDownloadRoundTrip ==
  /\ UploadOk =>
       /\ lastOp.rec.Size = Len(lastOp.data)
       /\ Len(lastOp.rec.Replicas) > 0
  /\ (DownloadDone /\ lastOp.versionID = EmptyID /\ lastOp.fileID \in untouched) =>
       /\ lastOp.err = ""
       /\ lastOp.data = UploadedData(lastOp.fileID)

C1_Witness ==
  /\ DownloadDone /\ lastOp.versionID = EmptyID /\ lastOp.fileID \in untouched
  /\ lastOp.err = ""
  /\ lastOp.data # <<>>

\* The fileID and versionID of the upload lastOp records, and whether the
\* node now holds that blob whole (data and matching checksum).
HoldsUpload(nodeID) ==
  Intact(nodeID, lastOp.fileID, lastOp.versionID, lastOp.data)

\* C2: UploadFile succeeds exactly when Store succeeded on some candidate and
\* the metadata save succeeded; Store is attempted on every registered
\* candidate whatever happened on the earlier ones; and when no Store
\* succeeded the upload fails with "failed to store file on any node", the
\* metadata save not having been called.
C2_UploadSuccessIffStoredAndSaved ==
  UploadDone =>
    /\ lastOp.tried = RegisteredOf(lastOp.cand)
    /\ IsSubSeq(lastOp.stored, lastOp.tried)
    /\ (lastOp.err = "") <=> (lastOp.stored # <<>> /\ HasRecord(lastOp.fileID))
    /\ lastOp.err = "" =>
         \A n \in Range(lastOp.tried) : n \in Range(lastOp.stored) <=> HoldsUpload(n)
    /\ (lastOp.cand # <<>> /\ lastOp.stored = <<>>) =>
         /\ lastOp.err = "failed to store file on any node"
         /\ ~lastOp.saveCalled
         /\ ~HasRecord(lastOp.fileID)

\* A Store failed on the first candidate and succeeded on the second.
C2_Witness ==
  /\ UploadOk
  /\ Len(lastOp.tried) = 2
  /\ lastOp.stored = <<lastOp.tried[2]>>

\* C3: when SaveMetadata fails, UploadFile has issued a delete of (fileID,
\* versionID) to every node on which Store succeeded, returns the save error
\* and no record, and every such node whose delete succeeded no longer holds
\* a blob for (fileID, versionID).
C3_SaveFailureRolledBack ==
  (UploadDone /\ lastOp.saveCalled /\ lastOp.err # "") =>
    /\ lastOp.err = "metadata save failed"
    /\ lastOp.rec = NoMetadata
    /\ ~HasRecord(lastOp.fileID)
    /\ lastOp.stored # <<>>
    /\ lastOp.cleaned = lastOp.stored
    /\ \A n \in Range(lastOp.stored) \ lastOp.cleanFailed :
         Blob(n, lastOp.fileID, lastOp.versionID) = NoBlob

\* The save failed after two stores, and both deletes succeeded.
C3_Witness ==
  /\ UploadDone /\ lastOp.saveCalled /\ lastOp.err # ""
  /\ Len(lastOp.stored) = 2
  /\ lastOp.cleanFailed = {}

\* C4: after UploadFile returns an error, every cleanup delete it issued
\* having succeeded, there is no metadata record for its fileID and no
\* storage node holds data under that fileID.
C4_NoPartialUploadSurvives ==
  (UploadFailed /\ lastOp.cleanFailed = {}) =>
    /\ ~HasRecord(lastOp.fileID)
    /\ \A n \in NodeIDs : \A v \in VersionIDs : ~Blob(n, lastOp.fileID, v).hasData

\* C5: the record a successful UploadFile saved and returned has exactly one
\* version, and its Replicas and that version's Nodes are the nodes on which
\* Store succeeded, in GetNodes order: pairwise distinct, between 1 and
\* replicaFactor of them, each registered and holding the blob.
C5_RecordListsStoredNodes ==
  UploadOk =>
    LET rec == lastOp.rec
    IN /\ HasRecord(lastOp.fileID) /\ RecordOf(lastOp.fileID) = rec
       /\ rec.FileID = lastOp.fileID
       /\ Len(rec.Versions) = 1
       /\ rec.Versions[1].VersionID = lastOp.versionID
       /\ rec.Versions[1].Nodes = rec.Replicas
       /\ IsSubSeq(rec.Replicas, GetNodes(ringState, hashFile(lastOp.fileID)))
       /\ Distinct(rec.Replicas)
       /\ Len(rec.Replicas) >= 1 /\ Len(rec.Replicas) <= replicaFactor
       /\ \A n \in Range(rec.Replicas) : n \in nodes
       /\ \A n \in NodeIDs : n \in Range(rec.Replicas) <=> HoldsUpload(n)

\* Three nodes are registered and the record lists replicaFactor of them.
C5_Witness ==
  /\ UploadOk
  /\ Cardinality(nodes) > replicaFactor
  /\ Len(lastOp.rec.Replicas) = replicaFactor

\* C6: UploadFile with no node registered fails with "no storage nodes
\* available", writes to no storage node and creates no metadata record.
C6_UploadWithoutNodes ==
  (UploadDone /\ nodes = {}) =>
    /\ lastOp.err = "no storage nodes available"
    /\ lastOp.tried = <<>>
    /\ ~HasRecord(lastOp.fileID)
    /\ \A n \in NodeIDs : ~disk[n][lastOp.fileID].exists

\* The version a download that reached the replica walk read, the recorded
\* nodes of it that are registered, and whether a node can Retrieve it.
ReadVersion == RecordOf(lastOp.fileID).Versions[lastOp.target]
ReadNodes == RegisteredOf(ReadVersion.Nodes)
Walked == DownloadDone /\ lastOp.target > 0
CanRetrieve(nodeID) ==
  LET b == Blob(nodeID, lastOp.fileID, ReadVersion.VersionID)
  IN b.hasData /\ b.hasSum /\ b.sum = calculateChecksum(b.data)

\* C7: DownloadFile calls Retrieve on the registered nodes of the target
\* version in recorded order, skipping the unregistered ones; it stops at the
\* first node that can Retrieve the blob and returns that node's bytes; it
\* fails only when no recorded node is registered and able to Retrieve.
C7_OrderedFailoverRead ==
  Walked =>
    LET n == Len(lastOp.tried)
    IN /\ n <= Len(ReadNodes)
       /\ lastOp.tried = SubSeq(ReadNodes, 1, n)
       /\ \A i \in 1..(n - 1) : ~CanRetrieve(lastOp.tried[i])
       /\ lastOp.err = "" =>
            /\ n >= 1
            /\ CanRetrieve(lastOp.tried[n])
            /\ lastOp.data = Blob(lastOp.tried[n], lastOp.fileID,
                                  ReadVersion.VersionID).data
       /\ lastOp.err # "" =>
            /\ n = Len(ReadNodes)
            /\ \A i \in 1..n : ~CanRetrieve(lastOp.tried[i])

\* The first recorded node was registered and could not Retrieve; the
\* second one answered.
C7_Witness ==
  /\ Walked /\ lastOp.err = ""
  /\ Len(lastOp.tried) = 2
  /\ ~CanRetrieve(lastOp.tried[1])

\* C8: whatever RegisterNode and UnregisterNode calls followed the upload of
\* a file, as long as one recorded node is registered and holds the blob
\* intact, DownloadFile of the latest version returns the uploaded bytes;
\* the ring is not consulted.
C8_ReadsSurviveMembershipChanges ==
  (DownloadDone /\ lastOp.versionID = EmptyID
     /\ HasRecord(lastOp.fileID)
     /\ \E u \in uploaded : u.fileID = lastOp.fileID) =>
    LET rec == RecordOf(lastOp.fileID)
        v == rec.Versions[Len(rec.Versions)]
        data == UploadedData(lastOp.fileID)
    IN (\E n \in Range(v.Nodes) :
          n \in nodes /\ Intact(n, lastOp.fileID, v.VersionID, data)) =>
         /\ lastOp.err = ""
         /\ lastOp.data = data

\* A recorded node has been unregistered, the ring no longer places the file
\* on the nodes of the record, and the download still returns the bytes.
C8_Witness ==
  /\ DownloadDone /\ lastOp.versionID = EmptyID /\ lastOp.err = ""
  /\ HasRecord(lastOp.fileID)
  /\ \E n \in Range(RecordOf(lastOp.fileID).Replicas) : n \notin nodes
  /\ GetNodes(ringState, hashFile(lastOp.fileID)) # RecordOf(lastOp.fileID).Replicas
  /\ lastOp.data = UploadedData(lastOp.fileID)
  /\ lastOp.data # <<>>

\* C9: with a versionID, DownloadFile reads a version whose VersionID equals
\* it, the first such, and fails with "version not found", calling Retrieve
\* on no node, if the record has none; with the empty versionID it reads the
\* last element of the record's version list.
C9_VersionSelection ==
  (DownloadDone /\ HasRecord(lastOp.fileID)) =>
    LET vs == RecordOf(lastOp.fileID).Versions
        t == lastOp.target
    IN IF lastOp.versionID = EmptyID
       THEN /\ t = Len(vs)
            /\ t > 0 => Range(lastOp.tried) \subseteq Range(vs[t].Nodes)
       ELSE IF \E i \in 1..Len(vs) : vs[i].VersionID = lastOp.versionID
            THEN /\ t \in 1..Len(vs)
                 /\ vs[t].VersionID = lastOp.versionID
                 /\ \A j \in 1..(t - 1) : vs[j].VersionID # lastOp.versionID
                 /\ Range(lastOp.tried) \subseteq Range(vs[t].Nodes)
                 /\ lastOp.err # "version not found"
            ELSE /\ t = 0
                 /\ lastOp.err = "version not found"
                 /\ lastOp.tried = <<>>
                 /\ lastOp.data = <<>>

\* The record has two versions with different identifiers, and the download
\* of the latest read the second one.
C9_Witness ==
  /\ DownloadDone /\ HasRecord(lastOp.fileID)
  /\ lastOp.versionID = EmptyID
  /\ Len(RecordOf(lastOp.fileID).Versions) = 2
  /\ RecordOf(lastOp.fileID).Versions[1].VersionID
       # RecordOf(lastOp.fileID).Versions[2].VersionID
  /\ lastOp.target = 2
  /\ lastOp.tried # <<>>

\* C10: when no registered node of the target version can Retrieve the blob,
\* the unregistered ones having been skipped, DownloadFile returns no data
\* and "failed to retrieve file from any replica" wrapping the error of the
\* last Retrieve it called (nil when it called none).
C10_AllReplicasFail ==
  (Walked /\ \A i \in 1..Len(ReadNodes) : ~CanRetrieve(ReadNodes[i])) =>
    /\ lastOp.err = "failed to retrieve file from any replica"
    /\ lastOp.data = <<>>
    /\ lastOp.rec = NoMetadata
    /\ lastOp.wrapped =
         IF ReadNodes = <<>> THEN ""
         ELSE RetrieveFile(disk[ReadNodes[Len(ReadNodes)]], lastOp.fileID,
                           ReadVersion.VersionID).err

\* Every recorded node has been unregistered: all were skipped.
C10_Witness ==
  /\ Walked
  /\ ReadVersion.Nodes # <<>>
  /\ ReadNodes = <<>>
  /\ lastOp.err = "failed to retrieve file from any replica"

DeleteDone == lastOp.op = "delete"

\* C11: a DeleteFile step on a file with a record issues DeleteAllVersions
\* to every registered node of the record's Replicas, in order, whether or
\* not an earlier one failed; its error is that of the metadata deletion
\* alone; and when it returns success the record is gone, GetFileInfo
\* fails with the store's not-found error and DownloadFile with "file not
\* found" for every versionID.
C11_DeleteIssuesAllAndRemovesRecord ==
  [][\A f \in FileIDs :
       (lastOp'.op = "delete" /\ lastOp'.fileID = f /\ HasRecord(f)) =>
          /\ lastOp'.issued = RegisteredOf(RecordOf(f).Replicas)
          /\ lastOp'.err \in {"", "metadata delete failed"}
          /\ lastOp'.err = "" =>
               /\ files' = files \ {RecordOf(f)}
               /\ (~HasRecord(f))'
               /\ (GetFileInfo(f).err = "no documents in result")'
               /\ \A v \in VersionIDs \cup {EmptyID} :
                    (DownloadOutcome(f, v).err = "file not found")'
          /\ lastOp'.err # "" => files' = files]_vars

\* A successful delete that reached two nodes: the first one still has the
\* file's container, so its DeleteAllVersions failed, the second one lost
\* it, and the record is gone.
C11_Witness ==
  /\ DeleteDone /\ lastOp.err = ""
  /\ Len(lastOp.issued) = 2
  /\ disk[lastOp.issued[1]][lastOp.fileID].exists
  /\ ~disk[lastOp.issued[2]][lastOp.fileID].exists
  /\ lastOp.fileID \in usedIDs
  /\ ~HasRecord(lastOp.fileID)

\* The node's storage location holds something under the fileID: its
\* container or a data file of some version.
HoldsData(nodeID, fileID) ==
  \/ disk[nodeID][fileID].exists
  \/ \E v \in VersionIDs : Blob(nodeID, fileID, v).hasData

\* C12: after DeleteFile(f) has returned success, no node's storage
\* location holds data under f.
C12_DeletionComplete ==
  (DeleteDone /\ lastOp.err = "") =>
    \A n \in NodeIDs : ~HoldsData(n, lastOp.fileID)

\* C13: a DeleteFile step on a fileID with no record returns "file not
\* found", calls DeleteAllVersions on no node and leaves every storage
\* location and the metadata store as they were.
C13_DeleteOfMissingRecord ==
  [][\A f \in FileIDs :
       (lastOp'.op = "delete" /\ lastOp'.fileID = f /\ ~HasRecord(f)) =>
          /\ lastOp'.err = "file not found"
          /\ lastOp'.issued = <<>>
          /\ disk' = disk
          /\ files' = files
          /\ nodes' = nodes /\ hashRing' = hashRing /\ chNodes' = chNodes]_vars

\* A delete answered "file not found" while a registered node holds
\* data under that fileID.
C13_Witness ==
  /\ DeleteDone /\ lastOp.err = "file not found"
  /\ ~HasRecord(lastOp.fileID)
  /\ \E n \in nodes : HoldsData(n, lastOp.fileID)

\* C14: a DeleteFile(A) step leaves, for every other file B, B's record,
\* everything the nodes hold under B and the outcome of DownloadFile(B)
\* as they were, whether or not A and B share nodes.
C14_DeleteIsolation ==
  [][\A a, b \in FileIDs :
       (lastOp'.op = "delete" /\ lastOp'.fileID = a /\ a # b) =>
          /\ {d \in files' : d.FileID = b} = {d \in files : d.FileID = b}
          /\ \A n \in NodeIDs : disk'[n][b] = disk[n][b]
          /\ DownloadOutcome(b, EmptyID)' = DownloadOutcome(b, EmptyID)]_vars

\* File A has just been deleted from a node that is also a replica of
\* file B, and B is still downloadable with its own non-empty payload.
C14_Witness ==
  /\ DeleteDone /\ lastOp.err = ""
  /\ \E b \in FileIDs :
       /\ b # lastOp.fileID
       /\ HasRecord(b)
       /\ \E n \in Range(lastOp.issued) :
            /\ n \in Range(RecordOf(b).Replicas)
            /\ ~HoldsData(n, lastOp.fileID)
       /\ DownloadOutcome(b, EmptyID).err = ""
       /\ DownloadOutcome(b, EmptyID).data = UploadedData(b)
       /\ UploadedData(b) # <<>>

UploadReturned(fileID) == calls.up[fileID].pc = "done"
AllReturned == \A f \in FileIDs : UploadReturned(f)

\* C15: with the three nodes registered, every UploadFile call that has
\* returned, however its steps interleaved with the other calls, returned
\* success and its file downloads with its own payload; once the calls of
\* all the distinct files have returned the store holds exactly that many
\* records, ListFiles reports that total, and a page large enough lists
\* them all.
C15_ConcurrentUploads ==
  /\ \A f \in FileIDs : UploadReturned(f) =>
       /\ calls.up[f].err = ""
       /\ HasRecord(f)
       /\ Len(RecordOf(f).Replicas) = replicaFactor
       /\ (DownloadDone /\ lastOp.fileID = f) =>
            (lastOp.err = "" /\ lastOp.data = calls.up[f].data)
  /\ AllReturned =>
       /\ Cardinality(files) = MaxFiles
       /\ lastOp.op = "list" =>
            /\ lastOp.total = MaxFiles
            /\ (lastOp.page = 1 /\ lastOp.pageSize >= MaxFiles) => lastOp.files = files

\* Both calls have returned, the two files carry different payloads and
\* share a node, and a listing reports both records.
C15_Witness ==
  /\ AllReturned
  /\ lastOp.op = "list" /\ lastOp.total = MaxFiles /\ lastOp.files = files
  /\ \E f, g \in FileIDs :
       /\ f # g
       /\ calls.up[f].data # calls.up[g].data
       /\ Range(RecordOf(f).Replicas) \cap Range(RecordOf(g).Replicas) # {}

\* C16: no reachable state has a RegisterNode or UnregisterNode call at
\* its write of the registry map while an UploadFile call is at its read of
\* the map or another membership call is at its write.
C16_RegistryAccessExclusive == ~RegistryRace

\* The smaller of two numbers.
Min(a, b) == IF a < b THEN a ELSE b

\* C17: in every ring state reached by AddNode and RemoveNode, for every
\* key, GetNodes returns pairwise-distinct identifiers, as many as the
\* smaller of replicaFactor and the number of nodes currently added.
C17_GetNodesCount ==
  \A h \in Keys :
    /\ Distinct(GetNodes(ringState, h))
    /\ Len(GetNodes(ringState, h)) = Min(replicaFactor, Cardinality(nodes))

\* C18: when RemoveNode(N) has returned, no key's GetNodes result contains
\* N, and every key's result consists of the smaller of replicaFactor and
\* the number of remaining nodes many of the remaining nodes.
C18_RemovedNodeGone ==
  (lastOp.op = "unregister") =>
    \A h \in Keys :
      /\ lastOp.node \notin Range(GetNodes(ringState, h))
      /\ Range(GetNodes(ringState, h)) \subseteq nodes
      /\ Len(GetNodes(ringState, h)) = Min(replicaFactor, Cardinality(nodes))

\* C19: the ring holds virtualNodes entries for each node currently added
\* and no others, and the position map has one entry per ring entry.
C19_RingSize ==
  /\ Len(hashRing) = VirtualNodes * Cardinality(nodes)
  /\ Cardinality({h \in Keys : chNodes[h] # NoNode}) = Len(hashRing)

NodeStep(op, n, f, v) ==
  /\ lastOp'.op = op
  /\ lastOp'.node = n /\ lastOp'.fileID = f /\ lastOp'.versionID = v

\* C21: on a node, a Store of (f, v, data) that succeeds makes Retrieve of
\* (f, v) return data; what Retrieve of (f, v) returns stays the same over
\* every step that is not a Delete or DeleteAll of f, an alteration from
\* outside, or a later successful Store of the key; a Retrieve step returns
\* just that and fails for a key whose version directory was never made.
C21_NodeRoundTrip ==
  [][\A n \in OneNode, f \in SingleFile, v \in VersionIDs :
       /\ (NodeStep("store", n, f, v) /\ lastOp'.err = "") =>
            RetrieveFile(disk'[n], f, v) = [data |-> lastOp'.data, err |-> ""]
       /\ NodeStep("retrieve", n, f, v) =>
            /\ lastOp'.data = RetrieveFile(disk[n], f, v).data
            /\ lastOp'.err = RetrieveFile(disk[n], f, v).err
            /\ ~disk[n][f].vers[v].dir => lastOp'.err # ""
       /\ (/\ RetrieveFile(disk[n], f, v).err = ""
           /\ lastOp'.op \notin {"nodedelete", "deleteall", "corrupt"}
           /\ ~(\/ NodeStep("store", n, f, v) /\ lastOp'.err = ""
                \/ NodeStep("replicate", n, f, v) /\ lastOp'.err = "")) =>
            RetrieveFile(disk'[n], f, v) = RetrieveFile(disk[n], f, v)]_vars

\* The node holds, for the key, a checksum that is the checksum of some
\* bytes and a data file with other bytes.
Corrupted(nodeID, fileID, versionID) ==
  LET b == Blob(nodeID, fileID, versionID)
  IN /\ b.hasData /\ b.hasSum
     /\ \E d \in Payloads : b.sum = calculateChecksum(d) /\ b.data # d

\* C22: Retrieve on a node whose data bytes differ from the bytes the stored
\* checksum was taken of returns the integrity error and no bytes; a
\* DownloadFile that reached such a node did not return from it, and it
\* succeeded from a later recorded node exactly when one could Retrieve.
C22_CorruptionDetected ==
  Walked =>
    \A i \in 1..Len(ReadNodes) :
      Corrupted(ReadNodes[i], lastOp.fileID, ReadVersion.VersionID) =>
        /\ RetrieveFile(disk[ReadNodes[i]], lastOp.fileID, ReadVersion.VersionID)
             = [data |-> <<>>, err |-> "checksum mismatch: data corrupted"]
        /\ ~(lastOp.err = "" /\ Len(lastOp.tried) = i)
        /\ i <= Len(lastOp.tried) =>
             IF \E j \in (i + 1)..Len(ReadNodes) : CanRetrieve(ReadNodes[j])
             THEN /\ lastOp.err = ""
                  /\ Len(lastOp.tried) > i
                  /\ CanRetrieve(lastOp.tried[Len(lastOp.tried)])
                  /\ lastOp.data = Blob(lastOp.tried[Len(lastOp.tried)],
                                        lastOp.fileID, ReadVersion.VersionID).data
             ELSE /\ lastOp.err = "failed to retrieve file from any replica"
                  /\ lastOp.data = <<>>

\* The first recorded node holds altered bytes of the same length as the
\* uploaded ones, and the download returned the uploaded bytes from the
\* second node.
C22_Witness ==
  /\ Walked /\ lastOp.err = ""
  /\ Len(lastOp.tried) = 2
  /\ Corrupted(lastOp.tried[1], lastOp.fileID, ReadVersion.VersionID)
  /\ \E u \in uploaded : u.fileID = lastOp.fileID
  /\ lastOp.data = UploadedData(lastOp.fileID)
  /\ Len(Blob(lastOp.tried[1], lastOp.fileID, ReadVersion.VersionID).data)
       = Len(lastOp.data)

\* C23: a Delete of (f, v) on a node whose removal is not refused by the
\* file system leaves nothing under (f, v), leaves every sibling version as
\* it was and as retrievable as it was, removes the container of f when no
\* other version directory remains, and, when it repeats a Delete of the
\* same key that succeeded, succeeds again and changes nothing.
C23_NodeDelete ==
  [][\A n \in OneNode, f \in SingleFile, v \in VersionIDs :
       (NodeStep("nodedelete", n, f, v) /\ lastOp'.err # "io error") =>
         /\ disk'[n][f].vers[v] = NoBlob
         /\ \A w \in VersionIDs \ {v} :
              /\ disk'[n][f].vers[w] = disk[n][f].vers[w]
              /\ RetrieveFile(disk'[n], f, w) = RetrieveFile(disk[n], f, w)
         /\ (\A w \in VersionIDs \ {v} : ~disk[n][f].vers[w].dir) =>
              disk'[n][f] = NoFileDir
         /\ (\E w \in VersionIDs \ {v} : disk[n][f].vers[w].dir) =>
              disk'[n][f].exists
         /\ (/\ lastOp.op = "nodedelete" /\ lastOp.err = ""
             /\ lastOp.node = n /\ lastOp.fileID = f /\ lastOp.versionID = v) =>
              /\ lastOp'.err = ""
              /\ disk' = disk]_vars

\* C24: a RegisterNode whose engine cannot be constructed returns the error
\* and leaves registry and ring as they were; one that succeeds leaves the
\* node in the registry and in the ring; either way GetNodeCount is the
\* number of distinct identifiers registered and not unregistered since.
Registered == {n \in NodeIDs : n \in nodes}

C24_RegisterAllOrNothing ==
  [][\A n \in NodeIDs :
       (lastOp'.op = "register" /\ lastOp'.node = n) =>
         /\ lastOp'.err # "" =>
              /\ UNCHANGED <<nodes, hashRing, chNodes>>
              /\ GetNodeCount' = GetNodeCount
         /\ lastOp'.err = "" =>
              /\ n \in nodes'
              /\ n \in GetAllNodes(ringState')
              /\ \E i \in 1..Len(hashRing') : chNodes'[hashRing'[i]] = n
              /\ Registered' = Registered \cup {n}
              /\ GetNodeCount' = Cardinality(Registered \cup {n})]_vars

\* A registration that failed next to one that succeeded twice.
C24_Witness ==
  /\ lastOp.op = "register" /\ lastOp.err # ""
  /\ nodes # {}
  /\ \E n \in NodeIDs : lastOp.node = n /\ n \notin nodes
  /\ Len(hashRing) > Cardinality(nodes) * VirtualNodes

\* C25: UnregisterNode(n) leaves n in neither the registry nor the ring's
\* owner map and changes no record and no stored blob; an UploadFile stores
\* nothing on an unregistered node and lists none in Replicas; and
\* unregistering an identifier that is not registered changes neither the
\* node count nor the nodes GetNodes returns for any key.
Placement == [h \in Keys |-> GetNodes(ringState, h)]

C25_UnregisterNode ==
  [][\A n \in NodeIDs :
       /\ (lastOp'.op = "unregister" /\ lastOp'.node = n) =>
            /\ n \notin nodes'
            /\ n \notin GetAllNodes(ringState')
            /\ \A h \in Keys : n \notin Range(Placement'[h])
            /\ UNCHANGED <<files, disk>>
            /\ n \notin nodes =>
                 /\ GetNodeCount' = GetNodeCount
                 /\ Placement' = Placement
       /\ (lastOp'.op = "upload" /\ n \notin nodes) =>
            /\ disk'[n] = disk[n]
            /\ n \notin Range(lastOp'.stored)
            /\ lastOp'.err = "" => n \notin Range(lastOp'.rec.Replicas)]_vars

\* C26: once bytes are retrievable under (f, v) on a node, a later Store or
\* ReplicateFile that succeeds on that node, whatever its key, leaves the
\* same bytes retrievable under (f, v).
C26_VersionImmutable ==
  [][\A n \in OneNode, f \in SingleFile, v \in VersionIDs :
       (/\ RetrieveFile(disk[n], f, v).err = ""
        /\ lastOp'.op \in {"store", "replicate"}
        /\ lastOp'.err = "") =>
         RetrieveFile(disk'[n], f, v) = RetrieveFile(disk[n], f, v)]_vars

\* C27: AddVersion(f, version) on an existing record returns no error and
\* appends exactly one element after the versions the record had, which a
\* DownloadFile with an empty versionID then targets; on a fileID with no
\* record it returns an error and creates no record.
C27_AddVersion ==
  [][\A f \in SingleFile :
       (lastOp'.op = "addversion" /\ lastOp'.fileID = f) =>
         IF HasRecord(f)
         THEN /\ lastOp'.err = ""
              /\ Cardinality(files') = Cardinality(files)
              /\ \E d \in files' :
                   /\ d.FileID = f
                   /\ Len(d.Versions) = Len(RecordOf(f).Versions) + 1
                   /\ SubSeq(d.Versions, 1, Len(d.Versions) - 1) = RecordOf(f).Versions
                   /\ targetVersion(d, EmptyID) = Len(d.Versions)
         ELSE /\ lastOp'.err # ""
              /\ files' = files]_vars

\* C28: on one node no two calls are between lock and unlock unless both
\* are reads; a call waiting for a node's lock is kept waiting only by
\* calls on that node; a Retrieve returns what the node's files hold as a
\* whole at that moment (the error or the bytes of RetrieveFile on them,
\* never the data of one Store with the checksum of another); and a Store
\* that returns success leaves its data retrievable.
InSection(t) == calls.io[t].pc \notin {"idle", "lock"}

IsSorted(s) == \A i \in 1..(Len(s) - 1) : s[i] <= s[i + 1]
InRing(t) == calls.rc[t].pc \notin {"idle", "lock"}

C29_RingAtomic ==
  [][\A t \in Threads :
       /\ (calls.rc[t].pc = "read" /\ calls'.rc[t].pc = "unlock") =>
            /\ IsSorted(hashRing)
            /\ \A u \in Threads :
                 (InRing(u) /\ calls.rc[u].op \in Mutations) =>
                   ringState \in {calls.rc[u].before,
                                  Applied(calls.rc[u].op, calls.rc[u].before,
                                          calls.rc[u].node)}
       /\ \A u \in Threads \ {t} :
            (InRing(t)' /\ InRing(u)') =>
              (calls'.rc[t].op \in Lookups /\ calls'.rc[u].op \in Lookups)
       /\ (calls.rc[t].pc = "unlock" /\ calls.rc[t].op \in Mutations
             /\ calls'.rc[t].pc = "idle") =>
            ringState = Applied(calls.rc[t].op, calls.rc[t].before, calls.rc[t].node)]_vars

\* A lookup has returned nodes while an AddNode was waiting for the lock.
C29_Witness ==
  /\ lastOp.op = "getnodes" /\ Len(lastOp.result) > 0
  /\ \E u \in Threads : calls.rc[u].op = "add" /\ calls.rc[u].pc = "lock"

\* C30: under fair scheduling every UploadFile call that has started
\* returns, and every RegisterNode or UnregisterNode call that has started
\* returns.
C30_EveryCallReturns ==
  /\ \A f \in SingleFile :
       (calls.up[f].pc \notin {"idle", "done"}) ~> (calls.up[f].pc = "done")
  /\ \A n \in NodeIDs :
       (calls.reg[n].pc # "idle") ~> (calls.reg[n].pc = "idle")

\* C31: a Store of (f, v, data) whose checksum write fails returns an
\* error, leaves the data it wrote in place, makes Exists(f, v) true, and
\* leaves Retrieve(f, v) returning an error and no bytes.
C31_StoreFailsAtChecksum ==
  [][\A n \in OneNode, f \in SingleFile, v \in VersionIDs, data \in Payloads :
       NodeStore(n, f, v, data, "sum") =>
         /\ lastOp'.err # ""
         /\ disk'[n][f].vers[v].hasData
         /\ disk'[n][f].vers[v].data = data
         /\ FileExists(disk'[n], f, v)
         /\ RetrieveFile(disk'[n], f, v).err # ""
         /\ RetrieveFile(disk'[n], f, v).data = <<>>]_vars

\* C32: a ReplicateFile of (f, v, data) that meets no failure leaves the
\* node's storage location exactly as a Store of (f, v, data) from the
\* same state leaves it: the same data and the same checksum under (f, v),
\* Retrieve(f, v) returning data, and every other key as it was.
C32_ReplicateIsStore ==
  [][\A n \in OneNode, f \in SingleFile, v \in VersionIDs, data \in Payloads :
       NodeReplicate(n, f, v, data, "none") =>
         /\ lastOp'.err = StoreFile(disk[n], f, v, data, "none").err
         /\ disk'[n] = StoreFile(disk[n], f, v, data, "none").fs
         /\ disk'[n][f].vers[v].data = data
         /\ disk'[n][f].vers[v].sum = calculateChecksum(data)
         /\ RetrieveFile(disk'[n], f, v) = [data |-> data, err |-> ""]
         /\ \A g \in FileIDs, w \in VersionIDs :
              (g # f \/ w # v) => disk'[n][g].vers[w] = disk[n][g].vers[w]]_vars

\* A ReplicateFile of some bytes has succeeded next to a sibling version
\* that is retrievable.
C32_Witness ==
  /\ lastOp.op = "replicate" /\ lastOp.err = "" /\ lastOp.data # <<>>
  /\ \E w \in VersionIDs \ {lastOp.versionID} :
       RetrieveFile(disk[lastOp.node], lastOp.fileID, w).err = ""
  /\ RetrieveFile(disk[lastOp.node], lastOp.fileID, lastOp.versionID).data = lastOp.data

\* C33: in every ring state reached by AddNode and RemoveNode the position
\* list is strictly increasing: sorted, and no position in it twice.
C33_RingStrictlySorted ==
  \A i \in 1..(Len(hashRing) - 1) : hashRing[i] < hashRing[i + 1]

\* C34: on a ring that is not empty GetNodes(key) lists the owners met
\* walking the positions forward from the smallest one >= hash(key), or
\* from the smallest one of all when hash(key) exceeds every position,
\* wrapping from the last entry to the first, each owner at its first
\* occurrence only, replicaFactor of them at most; its first node is the
\* owner of the position the walk starts at.
StartIndex(h) ==
  LET below == Cardinality({i \in 1..Len(hashRing) : hashRing[i] < h})
  IN IF below = Len(hashRing) THEN 1 ELSE below + 1

WalkOrder(h) ==
  [i \in 1..Len(hashRing) |->
     chNodes[hashRing[((StartIndex(h) - 1 + i - 1) % Len(hashRing)) + 1]]]

FirstOccurrences(seq) ==
  SelectSeq([i \in 1..Len(seq) |->
               IF \E j \in 1..(i - 1) : seq[j] = seq[i] THEN <<>> ELSE <<seq[i]>>],
            LAMBDA x : x # <<>>)

Successors(h) ==
  LET owners == FirstOccurrences(WalkOrder(h))
  IN [i \in 1..Min(replicaFactor, Len(owners)) |-> owners[i][1]]

C34_SuccessorPlacement ==
  /\ \A h \in Keys :
       Len(hashRing) > 0 =>
         /\ GetNodes(ringState, h) = Successors(h)
         /\ GetNodes(ringState, h)[1] = chNodes[hashRing[StartIndex(h)]]
         /\ GetPrimaryNode(ringState, h) = chNodes[hashRing[StartIndex(h)]]
         /\ (\E i \in 1..Len(hashRing) : hashRing[i] >= h) =>
              /\ hashRing[StartIndex(h)] >= h
              /\ \A i \in 1..Len(hashRing) :
                   hashRing[i] >= h => hashRing[StartIndex(h)] <= hashRing[i]
  /\ (lastOp.op = "getnodes" /\ Len(hashRing) > 0) =>
       lastOp.result = Successors(lastOp.key)

\* A lookup of a key beyond every position has returned two nodes, the
\* first one the owner of the ring's first position.
C34_Witness ==
  /\ lastOp.op = "getnodes"
  /\ Len(hashRing) > 0
  /\ lastOp.key > hashRing[Len(hashRing)]
  /\ Len(lastOp.result) = replicaFactor
  /\ lastOp.result[1] = chNodes[hashRing[1]]
  /\ lastOp.result[1] # NoNode /\ lastOp.result[2] # NoNode

\* C35: a RemoveNode of an identifier that GetAllNodes does not list
\* leaves the position list, the owner map and the nodes GetNodes returns
\* for every key as they were.
C35_RemoveAbsentNode ==
  [][\A n \in NodeIDs :
       (/\ lastOp'.op = "unregister" /\ lastOp'.node = n
        /\ n \notin GetAllNodes(ringState)) =>
         /\ hashRing' = hashRing
         /\ chNodes' = chNodes
         /\ Placement' = Placement]_vars

\* C36: after any sequence of RegisterNode and UnregisterNode calls every
\* identifier GetNodes returns for any key is in the registry, every
\* position of the list maps to a registered node, and GetNodes returns
\* the empty list exactly when the registry is empty.
C36_RingMatchesRegistry ==
  /\ \A h \in Keys : Range(GetNodes(ringState, h)) \subseteq nodes
  /\ \A i \in 1..Len(hashRing) : chNodes[hashRing[i]] \in nodes
  /\ \A h \in Keys : (GetNodes(ringState, h) = <<>>) <=> (nodes = {})

\* C37: while an UploadFile call has not returned the store holds no
\* record of its file; whenever a record is in the store, Retrieve of its
\* version succeeds with the uploaded bytes on every node its Replicas and
\* its version list; and a DownloadFile between the steps of uploads fails
\* when there is no record and returns the uploaded bytes when there is.
C37_StoreBeforePublish ==
  \A f \in FileIDs :
    /\ calls.up[f].pc # "done" => ~HasRecord(f)
    /\ HasRecord(f) =>
         /\ RecordOf(f).Replicas # <<>>
         /\ \A n \in Range(RecordOf(f).Replicas) \cup Range(RecordOf(f).Versions[1].Nodes) :
              RetrieveFile(disk[n], f, RecordOf(f).Versions[1].VersionID)
                = [data |-> calls.up[f].data, err |-> ""]
    /\ (DownloadDone /\ lastOp.fileID = f) =>
         IF HasRecord(f)
         THEN lastOp.err = "" /\ lastOp.data = calls.up[f].data
         ELSE lastOp.err # ""

\* A download has returned the bytes of one file, published with a single
\* replica after a store of it failed half-way on another node, while the
\* upload of another file stands between its stores.
C37_Witness ==
  /\ DownloadDone /\ lastOp.err = ""
  /\ \E f, g \in FileIDs :
       /\ f # g
       /\ lastOp.fileID = f
       /\ HasRecord(f) /\ Len(RecordOf(f).Replicas) = 1
       /\ \E n \in NodeIDs : disk[n][f].vers[newVersionID].hasData
                             /\ ~disk[n][f].vers[newVersionID].hasSum
       /\ calls.up[g].pc \in {"lookup", "store"} /\ Len(calls.up[g].stored) = 1

\* C38: between operations, every data file a registered node holds under
\* some (fileID, versionID) belongs to a fileID that has a record, and the
\* node is among the record's Replicas or among the Nodes of one of its
\* versions.
C38_NoOrphanedData ==
  \A n \in nodes, f \in FileIDs, v \in VersionIDs :
    Blob(n, f, v).hasData =>
      /\ HasRecord(f)
      /\ \/ n \in Range(RecordOf(f).Replicas)
         \/ \E i \in 1..Len(RecordOf(f).Versions) : n \in Range(RecordOf(f).Versions[i].Nodes)

\* C39: a DownloadFile whose steps interleave with those of a DeleteFile
\* of the same file returns the bytes that were uploaded or an error and no
\* bytes, and one that starts after a DeleteFile of the file has returned
\* success fails.
C39_DownloadDuringDelete ==
  \A f \in SingleFile :
    (lastOp.op = "download" /\ lastOp.fileID = f) =>
      /\ lastOp.err = "" => lastOp.data = calls.up[f].data
      /\ lastOp.err # "" => lastOp.data = <<>>
      /\ lastOp.after = "ok" => lastOp.err # ""

\* C39 as stated: the same, with a download that starts after a DeleteFile
\* of the file has returned, with or without an error, failing.
C39_DownloadAfterAnyDelete ==
  \A f \in SingleFile :
    (lastOp.op = "download" /\ lastOp.fileID = f) =>
      /\ lastOp.err = "" => lastOp.data = calls.up[f].data
      /\ lastOp.err # "" => lastOp.data = <<>>
      /\ lastOp.after \in {"ok", "failed"} => lastOp.err # ""

\* A download that started before the delete returned has found the record
\* and then no replica left to read, the delete not yet at its end.
C39_Witness ==
  /\ lastOp.op = "download" /\ lastOp.after = "no"
  /\ lastOp.err = "failed to retrieve file from any replica"
  /\ calls.del[lastOp.fileID].pc \in {"node", "drop"}
  /\ HasRecord(lastOp.fileID)

\* C40: on a ring whose positions are all distinct, after AddNode(n) every
\* key's primary node is the one it had or n, and after RemoveNode(n) every
\* key whose primary node was not n has the primary node it had.
Primary == [h \in Keys |-> GetPrimaryNode(ringState, h)]

C40_MinimalDisruption ==
  [][\A n \in NodeIDs :
       C33_RingStrictlySorted =>
         /\ (lastOp'.op = "register" /\ lastOp'.err = "" /\ lastOp'.node = n) =>
              \A h \in Keys : Primary'[h] \in {Primary[h], n}
         /\ (lastOp'.op = "unregister" /\ lastOp'.node = n) =>
              \A h \in Keys : Primary[h] # n => Primary'[h] = Primary[h]]_vars

====
